---------------------------- MODULE Spec2Model ----------------------------
(***************************************************************************)
(* Skin-type classification and product recommendation of the wakeup       *)
(* application.                                                            *)
(*                                                                         *)
(* pickTopProducts (src/src/domain/recommendation/pickTopProducts.ts) is   *)
(* modelled further down, with its own state machine SpecPick: the call,   *)
(* the answer of its one catalog query, and its return.  SpecCalls runs    *)
(* several such calls on one event loop.  The other parts of the           *)
(* application have a state machine each: SpecEnrich (the enrich script    *)
(* of src/scripts/validate-seed.ts), SpecSeed (the seed script's           *)
(* upsertProducts), SpecQuiz and SpecQuizUser (the quiz wizard             *)
(* QuizClient) and SpecProxy (the locale proxy src/src/proxy.ts).  Every   *)
(* specification holds the variables of the others at a value that says    *)
(* they are not in use.                                                    *)
(*                                                                         *)
(* computeSkinType (src/src/domain/skinType/computeSkinType.ts) is a pure  *)
(* function of two question sets and an answers map.  It is an operator    *)
(* here, computed the way the code computes it: merge, one pass over the   *)
(* merged questions, maximum, top set, tie resolution.  The state machine  *)
(* holds a questionnaire definition and an answers map, lets the answers   *)
(* change one entry at a time and applies the function.                    *)
(*                                                                         *)
(* Values: strings of the program are strings; null and undefined are the  *)
(* strings NULL and UNDEFINED (no choice id, code or archetype is spelt    *)
(* that way).  Weights are integers, for which the additions of the code   *)
(* (IEEE doubles) are exact.                                               *)
(***************************************************************************)
EXTENDS Integers, Sequences, FiniteSets

VARIABLES
    behavior,      \* behavior.questions, the first argument
    preference,    \* preference.questions, the second argument
    answers,       \* the AnswersMap: question code -> choice id, NULL or UNDEFINED
    pc,            \* "idle": no result for these inputs yet; "done": result is theirs
    result,        \* what computeSkinType returned
    catalog,       \* the Product table, with each row's tags (ProductTag, Tag)
    skinType,      \* pickTopProducts' argument skinType
    rule,          \* pickTopProducts' argument rule
    products,      \* what prisma.product.findMany returned
    picked,        \* what pickTopProducts returned
    pcPick,        \* "called", "awaiting" (the query is answered), "returned"
    heap,          \* the rule objects of the process, by reference
    frames,        \* the pickTopProducts calls in flight: locals and position
    seedFile,      \* products.seed.json as the enrich script holds it
    cursor,        \* the enrich loop's position in the products array
    database,      \* the committed Product, ProductTranslation, ProductTag rows
    tx,            \* the open transaction: its view of the rows and its next step
    seedRun,       \* upsertProducts: the seed products, the loop's position, the outcome
    questions,     \* QuizClient's merged and ordered questions
    selected,      \* QuizClient's answers state: question code -> option id
    idx,           \* QuizClient's idx state
    submitted,     \* what onSubmit logged
    request,       \* the request the proxy sees: pathname and Accept-Language
    response,      \* what proxy returned for it
    cookie,        \* the locale cookie of the last response
    redirects      \* redirect responses the client has followed so far

\* the classifier's variables and the recommender's
clsVars == <<behavior, preference, answers, pc, result>>
recVars == <<catalog, skinType, rule, products, picked, pcPick>>
\* concurrent recommendations, the enrich script, the seed script, the quiz
\* wizard and the locale proxy
callVars == <<heap, frames>>
enrVars == <<seedFile, cursor>>
seedVars == <<database, tx, seedRun>>
quizVars == <<questions, selected, idx, submitted>>
proxyVars == <<request, response, cookie, redirects>>
otherVars == <<callVars, enrVars, seedVars, quizVars, proxyVars>>

vars == <<clsVars, recVars, otherVars>>

---------------------------------------------------------------------------
(* Values of the program                                                   *)

NULL == "null"
UNDEFINED == "undefined"

\* const SKIN_TYPES: SkinTypeCode[] = ["DS", "OB", "HS", "CC", "SC"]
SKIN_TYPES == <<"DS", "OB", "HS", "CC", "SC">>

SkinTypeCode == {"DS", "OB", "HS", "CC", "SC"}

TIEBREAKER_CODE == "TIEBREAKER"

---------------------------------------------------------------------------
(* Bounds of the model                                                     *)

\* largest question weight
MaxWeight == 2
\* questions of a loosely formed definition (both sets together)
MaxLoose == 2

---------------------------------------------------------------------------
(* computeSkinType                                                         *)

\* mutant: the sentinel is looked for under the role name it once had
isTieBreakerQuestion_ByRole(q) == q.code = "TIEBREAKER_ONLY"

\* function isTieBreakerQuestion(q) { return q.code === TIEBREAKER_CODE; }
isTieBreakerQuestion(q) == q.code = TIEBREAKER_CODE

\* answers[q.code]: the entry, or undefined when the map has no such key
pickedIdOf(ans, code) == IF code \in DOMAIN ans THEN ans[code] ELSE UNDEFINED

\* !pickedId: undefined, null and the empty string are falsy
Falsy(v) == v \in {UNDEFINED, NULL, ""}

\* mutant: an id that matches no choice falls back to the first choice
find_OrFirst(options, pickedId) ==
    LET hits == {k \in 1..Len(options) : options[k].id = pickedId}
    IN  IF hits = {} THEN (IF options = << >> THEN 0 ELSE 1)
        ELSE CHOOSE k \in hits : \A j \in hits : k <= j

\* q.options.find((o) => o.id === pickedId): the index of the first option
\* with that id, 0 when there is none
find(options, pickedId) ==
    LET hits == {k \in 1..Len(options) : options[k].id = pickedId}
    IN  IF hits = {} THEN 0
        ELSE CHOOSE k \in hits : \A j \in hits : k <= j

\* const scores = { DS: 0, OB: 0, HS: 0, CC: 0, SC: 0 }; let tieBreaker = null
initialLocals ==
    [scores |-> [t \in SkinTypeCode |-> 0], tieBreaker |-> NULL]

\* mutant: a tie-break answer that is already recorded is kept, so the
\* first sentinel question with a target wins
loopBody_FirstSentinelWins(q, ans, st) ==
    LET pickedId == pickedIdOf(ans, q.code)
    IN  IF Falsy(pickedId) THEN st
        ELSE LET k == find(q.options, pickedId)
             IN  IF k = 0 THEN st
                 ELSE LET opt == q.options[k]
                      IN  IF isTieBreakerQuestion(q)
                            THEN IF st.tieBreaker # NULL THEN st
                                 ELSE [st EXCEPT !.tieBreaker = opt.skinType]
                          ELSE IF opt.skinType = NULL THEN st
                          ELSE [st EXCEPT !.scores[opt.skinType] = @ + q.weight]

\* mutant: the tie-break branch lacks its `continue`, so the sentinel
\* question's answer is scored as well
loopBody_TieBreakerScores(q, ans, st) ==
    LET pickedId == pickedIdOf(ans, q.code)
    IN  IF Falsy(pickedId) THEN st
        ELSE LET k == find(q.options, pickedId)
             IN  IF k = 0 THEN st
                 ELSE LET opt == q.options[k]
                          st1 == IF isTieBreakerQuestion(q)
                                   THEN [st EXCEPT !.tieBreaker = opt.skinType]
                                   ELSE st
                      IN  IF opt.skinType = NULL THEN st1
                          ELSE [st1 EXCEPT !.scores[opt.skinType] = @ + q.weight]

\* mutant: every scored answer counts 1, the weight is not read
loopBody_Unweighted(q, ans, st) ==
    LET pickedId == pickedIdOf(ans, q.code)
    IN  IF Falsy(pickedId) THEN st
        ELSE LET k == find(q.options, pickedId)
             IN  IF k = 0 THEN st
                 ELSE LET opt == q.options[k]
                      IN  IF isTieBreakerQuestion(q)
                            THEN [st EXCEPT !.tieBreaker = opt.skinType]
                          ELSE IF opt.skinType = NULL THEN st
                          ELSE [st EXCEPT !.scores[opt.skinType] = @ + 1]

\* mutant: -= for +=
loopBody_Subtract(q, ans, st) ==
    LET pickedId == pickedIdOf(ans, q.code)
    IN  IF Falsy(pickedId) THEN st
        ELSE LET k == find(q.options, pickedId)
             IN  IF k = 0 THEN st
                 ELSE LET opt == q.options[k]
                      IN  IF isTieBreakerQuestion(q)
                            THEN [st EXCEPT !.tieBreaker = opt.skinType]
                          ELSE IF opt.skinType = NULL THEN st
                          ELSE [st EXCEPT !.scores[opt.skinType] = @ - q.weight]

\* the body of `for (const q of all)`: one question against the answers
loopBody(q, ans, st) ==
    LET pickedId == pickedIdOf(ans, q.code)
    IN  IF Falsy(pickedId) THEN st
        ELSE LET k == find(q.options, pickedId)
             IN  IF k = 0 THEN st
                 ELSE LET opt == q.options[k]
                      IN  IF isTieBreakerQuestion(q)
                            THEN [st EXCEPT !.tieBreaker = opt.skinType]
                          ELSE IF opt.skinType = NULL THEN st
                          ELSE [st EXCEPT !.scores[opt.skinType] = @ + q.weight]

\* mutant: `break` for `continue` once the tie-break answer is recorded, so
\* the questions after the sentinel are not scored
RECURSIVE forLoop_BreakAtTieBreaker(_, _, _, _)
forLoop_BreakAtTieBreaker(all, ans, i, st) ==
    IF i > Len(all) THEN st
    ELSE IF isTieBreakerQuestion(all[i])
            /\ find(all[i].options, pickedIdOf(ans, all[i].code)) # 0
      THEN loopBody(all[i], ans, st)
    ELSE forLoop_BreakAtTieBreaker(all, ans, i + 1, loopBody(all[i], ans, st))

\* for (const q of all) { ... }, from question i on
RECURSIVE forLoop(_, _, _, _)
forLoop(all, ans, i, st) ==
    IF i > Len(all) THEN st
    ELSE forLoop(all, ans, i + 1, loopBody(all[i], ans, st))

\* Math.max(...SKIN_TYPES.map((t) => scores[t]))
maxScore(scores) ==
    CHOOSE m \in {scores[SKIN_TYPES[k]] : k \in 1..Len(SKIN_TYPES)} :
        \A k \in 1..Len(SKIN_TYPES) : scores[SKIN_TYPES[k]] <= m

\* mutant: the archetypes are filtered from the list in reverse
topOf_Reversed(scores) ==
    LET max == maxScore(scores)
        keep(t) == scores[t] = max
    IN  SelectSeq(<<"SC", "CC", "HS", "OB", "DS">>, keep)

\* SKIN_TYPES.filter((t) => scores[t] === max)
topOf(scores) ==
    LET max == maxScore(scores)
        keep(t) == scores[t] = max
    IN  SelectSeq(SKIN_TYPES, keep)

\* top.includes(x)
includes(top, x) == \E k \in 1..Len(top) : top[k] = x

\* mutant: the CC preference is left out
resolveTie_NoCCRule(top, tieBreaker) ==
    IF tieBreaker # NULL /\ includes(top, tieBreaker) THEN tieBreaker
    ELSE top[1]

\* mutant: the CC preference is tried before the tie-break answer
resolveTie_CCFirst(top, tieBreaker) ==
    IF includes(top, "CC") THEN "CC"
    ELSE IF tieBreaker # NULL /\ includes(top, tieBreaker) THEN tieBreaker
    ELSE top[1]

\* tieBreaker && top.includes(tieBreaker) ? tieBreaker
\*   : top.includes("CC") ? "CC" : top[0]
resolveTie(top, tieBreaker) ==
    IF tieBreaker # NULL /\ includes(top, tieBreaker) THEN tieBreaker
    ELSE IF includes(top, "CC") THEN "CC"
    ELSE top[1]

\* mutant: tieBreakerUsed is set only where the tie-break answer decided
decide_UsedOnlyWhenDeciding(top, tieBreaker) ==
    IF Len(top) = 1
      THEN [finalType |-> top[1], tieBreakerUsed |-> FALSE]
      ELSE [finalType |-> resolveTie(top, tieBreaker),
            tieBreakerUsed |-> (tieBreaker # NULL /\ includes(top, tieBreaker))]

\* if (top.length === 1) { finalType = top[0] } else { tieBreakerUsed = true; ... }
decide(top, tieBreaker) ==
    IF Len(top) = 1
      THEN [finalType |-> top[1], tieBreakerUsed |-> FALSE]
      ELSE [finalType |-> resolveTie(top, tieBreaker), tieBreakerUsed |-> TRUE]

computeSkinType(beh, pref, ans) ==
    LET all == beh \o pref
        st  == forLoop(all, ans, 1, initialLocals)
        top == topOf(st.scores)
        d   == decide(top, st.tieBreaker)
    IN  [finalType        |-> d.finalType,
         scores           |-> st.scores,
         topTypes         |-> top,
         tieBreakerUsed   |-> d.tieBreakerUsed,
         tieBreakerAnswer |-> st.tieBreaker]

---------------------------------------------------------------------------
(* Inputs                                                                  *)

\* every choice of a well-formed question: one per archetype and one with
\* no target (a pure-preference choice)
FullOptions ==
    << [id |-> "a", skinType |-> "DS"], [id |-> "b", skinType |-> "OB"],
       [id |-> "c", skinType |-> "HS"], [id |-> "d", skinType |-> "CC"],
       [id |-> "e", skinType |-> "SC"], [id |-> "f", skinType |-> NULL] >>

QuizCodes == <<"Q1", "Q2", "Q3">>

\* questionnaires as the data model describes them: scoring questions with
\* distinct codes and positive weights in the behavior set (the first h of
\* them weigh MaxWeight, the others 1), the TIEBREAKER question in the
\* preference set
QuizDefinitions ==
    { [behavior   |-> [i \in 1..Len(QuizCodes) |->
                          [code |-> QuizCodes[i],
                           weight |-> IF i <= h THEN MaxWeight ELSE 1,
                           options |-> FullOptions]],
       preference |-> << [code |-> TIEBREAKER_CODE, weight |-> MaxWeight,
                          options |-> FullOptions] >>]
      : h \in 0..Len(QuizCodes) }

\* choice lists of loosely formed questions: a null target, a repeated id,
\* a list without the id "a"
LooseOptionLists ==
    { << [id |-> "a", skinType |-> "HS"], [id |-> "b", skinType |-> NULL] >>,
      << [id |-> "a", skinType |-> "CC"], [id |-> "a", skinType |-> "DS"] >>,
      << [id |-> "b", skinType |-> "SC"] >> }

\* what the types allow: repeated codes, several or no TIEBREAKER questions,
\* weights of either sign on any question
LooseQuestions ==
    [code : {"Q1", TIEBREAKER_CODE}, weight : {-1, MaxWeight},
     options : LooseOptionLists]

SeqsUpTo(S, n) == UNION {[1..k -> S] : k \in 0..n}

\* the two sets of a loose definition hold at most MaxLoose questions together
LooseDefinitions ==
    UNION { { [behavior |-> b, preference |-> p] :
                p \in SeqsUpTo(LooseQuestions, MaxLoose - Len(b)) } :
            b \in SeqsUpTo(LooseQuestions, MaxLoose) }

Definitions == QuizDefinitions \cup LooseDefinitions

\* the keys and values an answers map is drawn from, for a definition: its
\* codes and choice ids, and a code and an id it may not have
InvalidId == "x"

AnswerKeys(all) ==
    {all[i].code : i \in 1..Len(all)} \cup {"Q1", TIEBREAKER_CODE}

AnswerValues(all) ==
    UNION { {all[i].options[k].id : k \in 1..Len(all[i].options)} :
            i \in 1..Len(all) }
    \cup {UNDEFINED, NULL, InvalidId}

---------------------------------------------------------------------------
(* The state machine                                                       *)

NoResult ==
    [finalType |-> "none", scores |-> [t \in SkinTypeCode |-> 0],
     topTypes |-> << >>, tieBreakerUsed |-> FALSE, tieBreakerAnswer |-> NULL]

\* no recommendation is asked for
NoCall ==
    /\ catalog = {}
    /\ skinType = "none"
    /\ rule = "none"
    /\ products = << >>
    /\ picked = << >>
    /\ pcPick = "none"

\* no recommendations run side by side
NoCalls ==
    /\ heap = << >>
    /\ frames = << >>

\* the enrich script is not running
NoEnrich ==
    /\ seedFile = << >>
    /\ cursor = 0

\* the seed script is not running
NoSeed ==
    /\ database = {}
    /\ tx = "none"
    /\ seedRun = "none"

\* the quiz page is not mounted
NoWizard ==
    /\ questions = << >>
    /\ selected = << >>
    /\ idx = 0
    /\ submitted = << >>

\* no request is passing the proxy
NoProxy ==
    /\ request = "none"
    /\ response = "none"
    /\ cookie = "none"
    /\ redirects = 0

\* nothing but the classifier and the recommender is in use
NoOther == NoCalls /\ NoEnrich /\ NoSeed /\ NoWizard /\ NoProxy

\* a definition is loaded and nothing is answered
Init ==
    \E d \in Definitions :
        /\ behavior = d.behavior
        /\ preference = d.preference
        /\ answers = [c \in AnswerKeys(d.behavior \o d.preference) |-> UNDEFINED]
        /\ pc = "idle"
        /\ result = NoResult
        /\ NoCall
        /\ NoOther

\* one entry of the answers map is set, or removed (v = UNDEFINED)
SetAnswer(code, v) ==
    /\ answers[code] # v
    /\ answers' = [answers EXCEPT ![code] = v]
    /\ pc' = "idle"
    /\ result' = NoResult
    /\ UNCHANGED <<behavior, preference>>
    /\ UNCHANGED <<recVars, otherVars>>

\* const computed = computeSkinType(behaviorJson, preferenceJson, answers)
Classify ==
    /\ pc = "idle"
    /\ result' = computeSkinType(behavior, preference, answers)
    /\ pc' = "done"
    /\ UNCHANGED <<behavior, preference, answers>>
    /\ UNCHANGED <<recVars, otherVars>>

Next ==
    \/ \E code \in DOMAIN answers :
         \E v \in AnswerValues(behavior \o preference) : SetAnswer(code, v)
    \/ Classify

Spec == Init /\ [][Next]_vars

---------------------------------------------------------------------------
(* The end-to-end example: six behavior questions of weight 1 and a        *)
(* TIEBREAKER question                                                     *)

E2ECodes == <<"Q1", "Q2", "Q3", "Q4", "Q5", "Q6">>

E2EBehavior ==
    [i \in 1..Len(E2ECodes) |->
        [code |-> E2ECodes[i], weight |-> 1, options |-> FullOptions]]

\* the answers tried: absent, null, the DS choice, the HS choice
E2EValues == {UNDEFINED, NULL, "a", "c"}

InitE2E ==
    \E w \in 1..MaxWeight :
        /\ behavior = E2EBehavior
        /\ preference = << [code |-> TIEBREAKER_CODE, weight |-> w,
                            options |-> FullOptions] >>
        /\ answers = [c \in AnswerKeys(E2EBehavior) |-> UNDEFINED]
        /\ pc = "idle"
        /\ result = NoResult
        /\ NoCall
        /\ NoOther

NextE2E ==
    \/ \E code \in DOMAIN answers : \E v \in E2EValues : SetAnswer(code, v)
    \/ Classify

SpecE2E == InitE2E /\ [][NextE2E]_vars

---------------------------------------------------------------------------
(* pickTopProducts (src/src/domain/recommendation/pickTopProducts.ts)      *)
(*                                                                         *)
(* A product row is a record with its tags in the order the query's        *)
(* include lists them; a row whose hsScore column is null has no hsScore   *)
(* field.  An optional property of a rule that is not given is not a field *)
(* of the record.  Scores are kept in units of 0.05, the factor of the     *)
(* safety bonus: tagScore is in points, hsBonus and score are in units.    *)
(* The hsScore values of the model are multiples of 5, for which the       *)
(* doubles of the code hold the bonus and the sum exactly.                 *)

\* the rules of RULES_BY_TYPE: DS, OB, HS, CC, SC
RuleDS ==
    [preferredCategories |->
         <<"TONER", "ESSENCE", "SERUM", "AMPOULE", "CREAM", "MIST">>,
     requiredTagsAny |-> <<"HYDRATING", "BARRIER_SUPPORT">>,
     boostTags |-> << [code |-> "HYDRATING", weight |-> 4],
                      [code |-> "BARRIER_SUPPORT", weight |-> 3],
                      [code |-> "SOOTHING", weight |-> 2],
                      [code |-> "ALCOHOL_FREE", weight |-> 1],
                      [code |-> "GENTLE", weight |-> 1] >>,
     limit |-> 3]

RuleOB ==
    [preferredCategories |-> <<"TONER", "PAD", "ESSENCE", "SERUM", "MIST">>,
     requiredTagsAny |-> <<"OIL_CONTROL", "LIGHTWEIGHT", "LOW_PH">>,
     boostTags |-> << [code |-> "OIL_CONTROL", weight |-> 4],
                      [code |-> "LIGHTWEIGHT", weight |-> 3],
                      [code |-> "NON_COMEDOGENIC", weight |-> 2],
                      [code |-> "LOW_PH", weight |-> 2],
                      [code |-> "GENTLE", weight |-> 1] >>,
     limit |-> 3]

RuleHS ==
    [preferredCategories |->
         <<"TONER", "ESSENCE", "SERUM", "AMPOULE", "CREAM", "MIST">>,
     requiredTagsAny |-> <<"GENTLE", "SOOTHING", "BARRIER_SUPPORT">>,
     boostTags |-> << [code |-> "GENTLE", weight |-> 4],
                      [code |-> "SOOTHING", weight |-> 3],
                      [code |-> "BARRIER_SUPPORT", weight |-> 3],
                      [code |-> "FRAGRANCE_FREE", weight |-> 2],
                      [code |-> "ESSENTIAL_OIL_FREE", weight |-> 2],
                      [code |-> "ALCOHOL_FREE", weight |-> 2] >>,
     limit |-> 3]

RuleCC ==
    [preferredCategories |->
         <<"TONER", "ESSENCE", "SERUM", "CREAM", "MIST", "PAD">>,
     requiredTagsAny |-> <<"LIGHTWEIGHT", "HYDRATING", "BARRIER_SUPPORT">>,
     boostTags |-> << [code |-> "LIGHTWEIGHT", weight |-> 3],
                      [code |-> "HYDRATING", weight |-> 2],
                      [code |-> "BARRIER_SUPPORT", weight |-> 2],
                      [code |-> "SOOTHING", weight |-> 1],
                      [code |-> "LOW_PH", weight |-> 1] >>,
     limit |-> 3]

RuleSC ==
    [preferredCategories |-> <<"TONER", "PAD", "SERUM", "ESSENCE">>,
     requiredTagsAny |-> <<"ACNE_CARE", "LOW_PH", "NON_COMEDOGENIC">>,
     boostTags |-> << [code |-> "ACNE_CARE", weight |-> 4],
                      [code |-> "LOW_PH", weight |-> 3],
                      [code |-> "NON_COMEDOGENIC", weight |-> 3],
                      [code |-> "GENTLE", weight |-> 1],
                      [code |-> "ALCOHOL_FREE", weight |-> 1] >>,
     limit |-> 3]

\* mutant: the SC rule penalises a tag with a negative weight
RULES_BY_TYPE_PenaltyWeight ==
    [t \in {"DS", "OB", "HS", "CC", "SC"} |->
        CASE t = "DS" -> RuleDS [] t = "OB" -> RuleOB
          [] t = "HS" -> RuleHS [] t = "CC" -> RuleCC
          [] t = "SC" ->
               [RuleSC EXCEPT !.boostTags =
                   Append(@, [code |-> "FRAGRANCE_FREE", weight |-> -1])]]

\* mutant: the HS rule requires SOOTHING and does not boost it
RULES_BY_TYPE_SoothingUnboosted ==
    [t \in SkinTypeCode |->
        CASE t = "DS" -> RuleDS
          [] t = "OB" -> RuleOB
          [] t = "HS" ->
               [RuleHS EXCEPT !.boostTags =
                   SelectSeq(@, LAMBDA b : b.code # "SOOTHING")]
          [] t = "CC" -> RuleCC
          [] t = "SC" -> RuleSC]

\* export const RULES_BY_TYPE: Record<SkinTypeCode, RecommendationRule>
RULES_BY_TYPE ==
    [t \in {"DS", "OB", "HS", "CC", "SC"} |->
        CASE t = "DS" -> RuleDS [] t = "OB" -> RuleOB
          [] t = "HS" -> RuleHS [] t = "CC" -> RuleCC
          [] t = "SC" -> RuleSC]

\* the elements of an array
Elems(s) == {s[i] : i \in 1..Len(s)}

\* const { preferredCategories, requiredTagsAny = [], excludedTags = [],
\*         boostTags = [], limit } = rule: an absent property is []
OrEmpty(r, field) == IF field \in DOMAIN r THEN r[field] ELSE << >>

\* mutant: the NOT clause for excludedTags is left out
where_WithoutNot(sk, r, p) ==
    /\ p.isPublished = TRUE
    /\ sk \in p.skinTypes
    /\ p.category \in Elems(r.preferredCategories)
    /\ (Len(OrEmpty(r, "requiredTagsAny")) # 0
          => Elems(p.tags) \cap Elems(OrEmpty(r, "requiredTagsAny")) # {})

\* the where clause of prisma.product.findMany: the rows the query admits
where(sk, r, p) ==
    /\ p.isPublished = TRUE
    /\ sk \in p.skinTypes
    /\ p.category \in Elems(r.preferredCategories)
    /\ (Len(OrEmpty(r, "requiredTagsAny")) # 0
          => Elems(p.tags) \cap Elems(OrEmpty(r, "requiredTagsAny")) # {})
    /\ (Len(OrEmpty(r, "excludedTags")) # 0
          => Elems(p.tags) \cap Elems(OrEmpty(r, "excludedTags")) = {})

\* const weightMap = new Map(); for (const t of boostTags) weightMap.set(...):
\* the pairs of the map, a later entry of boostTags replacing an earlier one
\* of the same code
weightMap(boostTags) ==
    { boostTags[i] : i \in { j \in 1..Len(boostTags) :
          \A k \in (j + 1)..Len(boostTags) : boostTags[k].code # boostTags[j].code } }

\* weightMap.get(code): the weight, or no weight (the empty set stands for
\* undefined)
get(wm, code) == { e.weight : e \in { x \in wm : x.code = code } }

\* for (const code of productTagCodes) { const w = weightMap.get(code);
\*   if (w) { tagScore += w; matchedBoostTags.push({ code, weight: w }) } }
RECURSIVE tagLoop(_, _, _, _)
tagLoop(wm, codes, i, acc) ==
    IF i > Len(codes) THEN acc
    ELSE LET ws == get(wm, codes[i])
             w  == CHOOSE x \in ws : TRUE
         IN  IF ws # {} /\ w # 0
             THEN tagLoop(wm, codes, i + 1,
                          [tagScore |-> acc.tagScore + w,
                           matchedBoostTags |->
                               Append(acc.matchedBoostTags,
                                      [code |-> codes[i], weight |-> w])])
             ELSE tagLoop(wm, codes, i + 1, acc)

\* the neutral hsScore and the number of units in a point:
\* ((hsScore ?? 50) - 50) * 0.05
NeutralHsScore == 50
UnitsPerPoint == 20

\* mutant: the bonus is given for every archetype
hsBonusOf_AnyType(sk, p) ==
    (IF "hsScore" \in DOMAIN p THEN p.hsScore ELSE NeutralHsScore)
    - NeutralHsScore

\* mutant: a missing hsScore counts as 0, (hsScore ?? 0)
hsBonusOf_MissingIsZero(sk, p) ==
    IF sk = "HS"
    THEN (IF "hsScore" \in DOMAIN p THEN p.hsScore ELSE 0) - NeutralHsScore
    ELSE 0

\* mutant: the factor is 0.15
hsBonusOf_Tripled(sk, p) ==
    IF sk = "HS"
    THEN 3 * ((IF "hsScore" \in DOMAIN p THEN p.hsScore ELSE NeutralHsScore)
              - NeutralHsScore)
    ELSE 0

\* const hsBonus = skinType === "HS" ? ((hsScore ?? 50) - 50) * 0.05 : 0
hsBonusOf(sk, p) ==
    IF sk = "HS"
    THEN (IF "hsScore" \in DOMAIN p THEN p.hsScore ELSE NeutralHsScore)
         - NeutralHsScore
    ELSE 0

\* the callback of products.map: one scored entry
scoreProduct(sk, wm, p) ==
    LET t  == tagLoop(wm, p.tags, 1, [tagScore |-> 0, matchedBoostTags |-> << >>])
        hb == hsBonusOf(sk, p)
    IN  [product |-> p,
         score |-> t.tagScore * UnitsPerPoint + hb,
         breakdown |->
             IF "hsScore" \in DOMAIN p
             THEN [tagScore |-> t.tagScore, hsBonus |-> hb,
                   matchedBoostTags |-> t.matchedBoostTags,
                   hsScore |-> p.hsScore]
             ELSE [tagScore |-> t.tagScore, hsBonus |-> hb,
                   matchedBoostTags |-> t.matchedBoostTags]]

\* products.map((p) => ...)
map(sk, wm, prods) == [i \in 1..Len(prods) |-> scoreProduct(sk, wm, prods[i])]

\* mutant: the comparator is a.score - b.score
insert_Ascending(sorted, e) ==
    LET behind == { i \in 1..Len(sorted) : sorted[i].score > e.score }
        k == IF behind = {} THEN Len(sorted) + 1
             ELSE CHOOSE i \in behind : \A j \in behind : i <= j
    IN  SubSeq(sorted, 1, k - 1) \o <<e>> \o SubSeq(sorted, k, Len(sorted))

\* mutant: an entry goes in front of the entries of equal score
insert_BeforeEquals(sorted, e) ==
    LET behind == { i \in 1..Len(sorted) : sorted[i].score <= e.score }
        k == IF behind = {} THEN Len(sorted) + 1
             ELSE CHOOSE i \in behind : \A j \in behind : i <= j
    IN  SubSeq(sorted, 1, k - 1) \o <<e>> \o SubSeq(sorted, k, Len(sorted))

\* one step of the sort: e goes behind every entry the comparator does not
\* put behind it, (a, b) => b.score - a.score being <= 0 for a before b
insert(sorted, e) ==
    LET behind == { i \in 1..Len(sorted) : sorted[i].score < e.score }
        k == IF behind = {} THEN Len(sorted) + 1
             ELSE CHOOSE i \in behind : \A j \in behind : i <= j
    IN  SubSeq(sorted, 1, k - 1) \o <<e>> \o SubSeq(sorted, k, Len(sorted))

\* scored.sort((a, b) => b.score - a.score): Array.prototype.sort is stable
RECURSIVE sortFrom(_, _, _)
sortFrom(scored, i, sorted) ==
    IF i > Len(scored) THEN sorted
    ELSE sortFrom(scored, i + 1, insert(sorted, scored[i]))

sort(scored) == sortFrom(scored, 1, << >>)

\* mutant: the end index is taken as inclusive
slice_InclusiveEnd(scored, limit) ==
    SubSeq(scored, 1, IF limit + 1 < Len(scored) THEN limit + 1 ELSE Len(scored))

\* mutant: a limit of 0 is taken as no limit (limit || undefined)
slice_ZeroMeansAll(scored, limit) ==
    IF limit = 0 THEN scored
    ELSE SubSeq(scored, 1, IF limit < Len(scored) THEN limit ELSE Len(scored))

\* scored.slice(0, limit), for a limit that is a natural number
slice(scored, limit) ==
    SubSeq(scored, 1, IF limit < Len(scored) THEN limit ELSE Len(scored))

\* pickTopProducts after its await: weightMap, map, sort, slice
pickTopProducts(sk, r, prods) ==
    slice(sort(map(sk, weightMap(OrEmpty(r, "boostTags")), prods)), r.limit)

---------------------------------------------------------------------------
(* Inputs of pickTopProducts                                               *)

\* rows of the catalog
MaxProducts == 3
\* largest limit of a rule that is not of RULES_BY_TYPE
MaxLimit == 2

\* a Product row with its tag codes; hs is the hsScore column, the empty
\* sequence for null
Row(id, pub, types, cat, tags, hs) ==
    IF hs = << >>
    THEN [id |-> id, isPublished |-> pub, skinTypes |-> types,
          category |-> cat, tags |-> tags]
    ELSE [id |-> id, isPublished |-> pub, skinTypes |-> types,
          category |-> cat, tags |-> tags, hsScore |-> hs[1]]

\* the rows a catalog is drawn from: rows each rule admits with equal and
\* with different scores, safe and unsafe ones, one with an hsScore above
\* 100, and rows that fail one condition of the query each
ProductPool ==
    { Row(1, TRUE, {"HS", "DS"}, "SERUM", <<"GENTLE">>, <<100>>),
      Row(2, TRUE, {"HS"}, "CREAM", <<"SOOTHING", "FRAGRANCE_FREE">>, <<0>>),
      Row(3, TRUE, {"HS", "DS", "CC"}, "TONER",
          <<"BARRIER_SUPPORT", "HYDRATING">>, << >>),
      Row(4, TRUE, {"HS"}, "SERUM",
          <<"ALCOHOL_FREE", "GENTLE", "SOOTHING", "BARRIER_SUPPORT">>, <<0>>),
      Row(5, TRUE, {"HS", "OB", "SC", "CC"}, "TONER", <<"LOW_PH", "GENTLE">>, <<50>>),
      Row(6, FALSE, {"HS", "DS"}, "SERUM", <<"GENTLE", "HYDRATING">>, <<100>>),
      Row(7, TRUE, {"OB", "CC"}, "PAD", <<"OIL_CONTROL", "LIGHTWEIGHT">>, << >>),
      Row(8, TRUE, {"HS", "DS"}, "OIL", <<"GENTLE", "HYDRATING">>, <<70>>),
      Row(9, TRUE, {"HS", "DS", "SC"}, "SERUM",
          <<"FRAGRANCE_FREE", "ESSENTIAL_OIL_FREE">>, <<100>>),
      Row(10, TRUE, {"HS", "SC"}, "ESSENCE", <<"SOOTHING", "ACNE_CARE">>, <<70>>),
      Row(11, TRUE, {"HS", "DS"}, "MIST", <<"SOOTHING">>, <<100>>),
      Row(12, TRUE, {"HS", "DS", "OB", "CC", "SC"}, "SERUM", << >>, <<25>>),
      Row(13, TRUE, {"HS", "DS"}, "CREAM", <<"BARRIER_SUPPORT">>, <<110>>),
      Row(14, TRUE, {"HS"}, "AMPOULE",
          <<"GENTLE", "FRAGRANCE_FREE", "ESSENTIAL_OIL_FREE">>, <<0>>) }

\* ten rows the HS rule admits, six of them with the same score from
\* different tags and hsScores
ManyProducts ==
    { Row(101, TRUE, {"HS"}, "SERUM", <<"SOOTHING", "ALCOHOL_FREE">>, << >>),
      Row(102, TRUE, {"HS"}, "SERUM", <<"BARRIER_SUPPORT">>, <<90>>),
      Row(103, TRUE, {"HS"}, "TONER", <<"GENTLE">>, <<70>>),
      Row(104, TRUE, {"HS"}, "CREAM", <<"SOOTHING", "ALCOHOL_FREE">>, <<50>>),
      Row(105, TRUE, {"HS"}, "SERUM", <<"BARRIER_SUPPORT">>, <<90>>),
      Row(106, TRUE, {"HS"}, "MIST", <<"GENTLE">>, <<70>>),
      Row(107, TRUE, {"HS"}, "SERUM", <<"SOOTHING", "ALCOHOL_FREE">>, <<25>>),
      Row(108, TRUE, {"HS"}, "SERUM", <<"BARRIER_SUPPORT">>, << >>),
      Row(109, TRUE, {"HS"}, "ESSENCE", <<"GENTLE">>, <<50>>),
      Row(110, TRUE, {"HS"}, "SERUM", <<"SOOTHING", "ALCOHOL_FREE">>, <<100>>) }

Catalogs ==
    { c \in SUBSET ProductPool : Cardinality(c) <= MaxProducts }
    \cup {ManyProducts}

\* rules that are not of RULES_BY_TYPE: every limit from 0, no optional
\* property, an excludedTags list, a weight of 0, a code listed twice
LooseRules ==
    UNION { { [RULES_BY_TYPE["HS"] EXCEPT !.limit = l],
              [preferredCategories |-> <<"SERUM", "CREAM", "TONER", "OIL">>,
               limit |-> l],
              [preferredCategories |-> <<"SERUM", "CREAM", "TONER", "ESSENCE">>,
               requiredTagsAny |-> <<"GENTLE", "SOOTHING">>,
               excludedTags |-> <<"ALCOHOL_FREE", "LOW_PH">>,
               boostTags |-> << [code |-> "GENTLE", weight |-> 0],
                                [code |-> "SOOTHING", weight |-> 2],
                                [code |-> "FRAGRANCE_FREE", weight |-> 1],
                                [code |-> "SOOTHING", weight |-> 3] >>,
               limit |-> l] } : l \in 0..MaxLimit }

\* the calls: each archetype with its rule, as the layout calls, an
\* archetype with another's rule, and HS and DS with the loose rules
Calls ==
    { [skinType |-> t, rule |-> RULES_BY_TYPE[t]] : t \in SkinTypeCode }
    \cup { [skinType |-> "DS", rule |-> RULES_BY_TYPE["HS"]],
           [skinType |-> "HS", rule |-> RULES_BY_TYPE["DS"]] }
    \cup { [skinType |-> t, rule |-> r] : t \in {"HS", "DS"}, r \in LooseRules }

\* the arrays that hold the rows of S once each
ArraysOf(S) == { a \in [1..Cardinality(S) -> S] : Elems(a) = S }

\* the rows of S by increasing id
RECURSIVE ById(_)
ById(S) ==
    IF S = {} THEN << >>
    ELSE LET p == CHOOSE x \in S : \A y \in S : x.id <= y.id
         IN  <<p>> \o ById(S \ {p})

Reverse(a) == [i \in 1..Len(a) |-> a[Len(a) + 1 - i]]

\* the orders in which the query may return the rows S (it has no orderBy):
\* every order of a few rows; of many rows the order by id from any row on,
\* and those backwards
ResultOrders(S) ==
    IF Cardinality(S) <= MaxProducts THEN ArraysOf(S)
    ELSE LET a == ById(S)
             rot == { SubSeq(a, k, Len(a)) \o SubSeq(a, 1, k - 1) : k \in 1..Len(a) }
         IN  rot \cup { Reverse(x) : x \in rot }

---------------------------------------------------------------------------
(* The recommender's state machine                                         *)

\* no questionnaire is being classified
NoQuiz ==
    /\ behavior = << >>
    /\ preference = << >>
    /\ answers = << >>
    /\ pc = "none"
    /\ result = NoResult

\* pickTopProducts({ prisma, skinType, rule }) is called
InitPick ==
    \E c \in Catalogs : \E call \in Calls :
        /\ catalog = c
        /\ skinType = call.skinType
        /\ rule = call.rule
        /\ products = << >>
        /\ picked = << >>
        /\ pcPick = "called"
        /\ NoQuiz
        /\ NoOther

\* const products = await prisma.product.findMany({ where, include })
findMany ==
    /\ pcPick = "called"
    /\ products' \in ResultOrders({ p \in catalog : where(skinType, rule, p) })
    /\ pcPick' = "awaiting"
    /\ UNCHANGED <<catalog, skinType, rule, picked>>
    /\ UNCHANGED <<clsVars, otherVars>>

\* a function body that sorts the query's own array
afterCall_SortsProducts(sk, r, prods) ==
    LET sorted == sort(map(sk, weightMap(OrEmpty(r, "boostTags")), prods))
    IN  [rule |-> r,
         products |-> [i \in 1..Len(sorted) |-> sorted[i].product],
         returned |-> slice(sorted, r.limit)]

\* a function body that empties rule.boostTags while it builds weightMap
afterCall_DrainsBoostTags(sk, r, prods) ==
    [rule |-> IF "boostTags" \in DOMAIN r
              THEN [r EXCEPT !.boostTags = << >>] ELSE r,
     products |-> prods,
     returned |-> pickTopProducts(sk, r, prods)]

\* the objects the function body touched, when it returns: the rule is only
\* destructured, weightMap is a new Map, products.map allocates the array
\* scored that sort orders in place, and slice allocates the returned array
afterCall(sk, r, prods) ==
    LET scored == map(sk, weightMap(OrEmpty(r, "boostTags")), prods)
        sorted == sort(scored)
    IN  [rule |-> r,
         products |-> prods,
         returned |-> slice(sorted, r.limit)]

\* the rest of pickTopProducts: weightMap, map, sort, return slice
Return ==
    /\ pcPick = "awaiting"
    /\ picked' = afterCall(skinType, rule, products).returned
    /\ rule' = afterCall(skinType, rule, products).rule
    /\ products' = afterCall(skinType, rule, products).products
    /\ pcPick' = "returned"
    /\ UNCHANGED <<catalog, skinType>>
    /\ UNCHANGED <<clsVars, otherVars>>

NextPick == findMany \/ Return

SpecPick == InitPick /\ [][NextPick]_vars

---------------------------------------------------------------------------
(* Recommendations side by side: several pickTopProducts calls on one
   event loop. A call runs to its await, is suspended until the query is
   answered, and then runs to its return; the steps of different calls
   interleave. The rule objects are shared by reference.                  *)

\* calls in flight
MaxCalls == 2

\* the rule objects of the process: RULES_BY_TYPE's, and one of a caller
RuleObjects ==
    [ref \in SkinTypeCode \cup {"own"} |->
        IF ref \in SkinTypeCode THEN RULES_BY_TYPE[ref]
        ELSE [preferredCategories |-> <<"SERUM", "CREAM", "TONER", "MIST">>,
              requiredTagsAny |-> <<"GENTLE", "SOOTHING", "HYDRATING">>,
              boostTags |-> << [code |-> "SOOTHING", weight |-> 2],
                               [code |-> "HYDRATING", weight |-> 1] >>,
              limit |-> 2]]

\* what a call is given: an archetype and a reference to a rule object
CallRefs ==
    { [skinType |-> "HS", ref |-> "HS"],
      [skinType |-> "DS", ref |-> "DS"],
      [skinType |-> "HS", ref |-> "own"] }

\* the catalogs the calls query
SharedCatalogs ==
    { { p \in ProductPool : p.id \in {1, 2, 3} },
      { p \in ProductPool : p.id \in {3, 11, 13} } }

\* const { preferredCategories, requiredTagsAny = [], excludedTags = [],
\* boostTags = [], limit } = rule: limit is copied, the arrays are the
\* rule's own (boostTags is read through the rule when the call resumes)
destructure(r) ==
    [preferredCategories |-> r.preferredCategories,
     requiredTagsAny |-> OrEmpty(r, "requiredTagsAny"),
     excludedTags |-> OrEmpty(r, "excludedTags"),
     limit |-> r.limit]

NoLocals ==
    [preferredCategories |-> << >>, requiredTagsAny |-> << >>,
     excludedTags |-> << >>, limit |-> 0]

InitCalls ==
    \E c \in SharedCatalogs : \E f \in [1..MaxCalls -> CallRefs] :
        /\ catalog = c
        /\ heap = RuleObjects
        /\ frames = [i \in 1..MaxCalls |->
                        [skinType |-> f[i].skinType, ref |-> f[i].ref,
                         pc |-> "start", locals |-> NoLocals,
                         products |-> << >>, returned |-> << >>]]
        /\ skinType = "none" /\ rule = "none" /\ products = << >>
        /\ picked = << >> /\ pcPick = "none"
        /\ NoQuiz /\ NoEnrich /\ NoSeed /\ NoWizard /\ NoProxy

\* pickTopProducts({ prisma, skinType, rule }) up to its await
call(i) ==
    /\ frames[i].pc = "start"
    /\ frames' = [frames EXCEPT ![i].pc = "called",
                                ![i].locals = destructure(heap[frames[i].ref])]
    /\ UNCHANGED <<heap, clsVars, recVars, enrVars, seedVars, quizVars, proxyVars>>

\* the query of call i is answered
findManyFor(i) ==
    /\ frames[i].pc = "called"
    /\ \E a \in ResultOrders({ p \in catalog :
                      where(frames[i].skinType, frames[i].locals, p) }) :
          frames' = [frames EXCEPT ![i].pc = "awaiting", ![i].products = a]
    /\ UNCHANGED <<heap, clsVars, recVars, enrVars, seedVars, quizVars, proxyVars>>

\* the rule as the resumed call sees it: its copy of limit, and the rule
\* object's boostTags as they are now
ruleSeen(i) ==
    LET now == heap[frames[i].ref]
    IN  IF "boostTags" \in DOMAIN now
        THEN [preferredCategories |-> frames[i].locals.preferredCategories,
              boostTags |-> now.boostTags, limit |-> frames[i].locals.limit]
        ELSE [preferredCategories |-> frames[i].locals.preferredCategories,
              limit |-> frames[i].locals.limit]

\* call i resumes and runs to its return
ReturnOf(i) ==
    /\ frames[i].pc = "awaiting"
    /\ frames' = [frames EXCEPT
          ![i].pc = "returned",
          ![i].products =
              afterCall(frames[i].skinType, ruleSeen(i), frames[i].products).products,
          ![i].returned =
              afterCall(frames[i].skinType, ruleSeen(i), frames[i].products).returned]
    /\ heap' = [heap EXCEPT ![frames[i].ref] =
          afterCall(frames[i].skinType, heap[frames[i].ref], frames[i].products).rule]
    /\ UNCHANGED <<clsVars, recVars, enrVars, seedVars, quizVars, proxyVars>>

NextCalls ==
    \E i \in 1..MaxCalls : call(i) \/ findManyFor(i) \/ ReturnOf(i)

SpecCalls == InitCalls /\ [][NextCalls]_vars

---------------------------------------------------------------------------
(* The enrich script: for every product of the seed file with an INCI
   text, the three "free" tags and hsScore are derived from the text.     *)

\* what the script looks for in the text; an INCI text is modelled by the
\* findings its nine tests make on it
Boosters ==
    {"ceramide", "panthenol", "centella", "beta glucan", "hyaluronic",
     "allantoin"}
Irritants == {"fragrance", "essential oil", "alcohol"}
Findings == Boosters \cup Irritants

\* p.inci: no property, null, "" or a text with its findings
Inci(text, found) == [text |-> text, found |-> found]
NoInci == { Inci(t, {}) : t \in {"undefined", "null", "empty"} }

\* !p.inci
NotInci(inci) == inci.text # "present"

\* the +10, +8, +8, +8, +6, +6 and -30, -25, -20 of calcHSSafeScore
Gain(f) ==
    CASE f = "ceramide" -> 10
      [] f = "panthenol" -> 8
      [] f = "centella" -> 8
      [] f = "beta glucan" -> 8
      [] f = "hyaluronic" -> 6
      [] f = "allantoin" -> 6
      [] f = "fragrance" -> 0 - 30
      [] f = "essential oil" -> 0 - 25
      [] f = "alcohol" -> 0 - 20

\* let score = 50, and the nine if statements
RECURSIVE rawScore(_)
rawScore(found) ==
    IF found = {} THEN 50
    ELSE LET f == CHOOSE x \in found : TRUE
         IN  rawScore(found \ {f}) + Gain(f)

Max(a, b) == IF a >= b THEN a ELSE b
Min(a, b) == IF a <= b THEN a ELSE b

\* a score that is returned as it was summed
calcHSSafeScore_Unclamped(found) == rawScore(found)

\* return Math.max(0, Math.min(100, score))
calcHSSafeScore(found) == Max(0, Min(100, rawScore(found)))

\* checkFree(p.inci)
checkFree(found) ==
    [fragranceFree |-> "fragrance" \notin found,
     alcoholFree |-> "alcohol" \notin found,
     essentialOilFree |-> "essential oil" \notin found]

\* upsertAutoTag(product, code) on the product's tags
upsertAutoTag(tags, code) ==
    IF \E i \in DOMAIN tags : tags[i].code = code THEN tags
    ELSE Append(tags, [code |-> code, priority |-> 100])

\* a product of the seed file; hs is the hsScore it has there, the empty
\* sequence for none
SeedProduct(slug, inci, tags, hs) ==
    IF hs = << >> THEN [slug |-> slug, inci |-> inci, tags |-> tags]
    ELSE [slug |-> slug, inci |-> inci, tags |-> tags, hsScore |-> hs[1]]

\* products in a seed file of several
MaxSeed == 2

\* every text by its findings, untagged or tagged by hand
AllTexts ==
    { SeedProduct("a", Inci("present", found), tags, << >>) :
        found \in SUBSET Findings,
        tags \in { << >>, << [code |-> "FRAGRANCE_FREE"] >> } }

\* products without a text, with the hsScore the file gives them, and two
\* with a text
FewProducts ==
    { SeedProduct("b", inci, << >>, hs) :
        inci \in NoInci, hs \in { << >>, <<40>> } }
    \cup { SeedProduct("c", Inci("present", {"fragrance", "essential oil"}),
                       << [code |-> "ALCOHOL_FREE", priority |-> 1] >>, <<70>>),
           SeedProduct("d", Inci("present", Boosters), << >>, << >>) }

SeedFiles ==
    { <<p>> : p \in AllTexts } \cup (SeqsUpTo(FewProducts, MaxSeed) \ {<< >>})

\* const products: Product[] = json.products
InitEnrich ==
    \E f \in SeedFiles :
        /\ seedFile = f
        /\ cursor = 1
        /\ NoQuiz /\ NoCall /\ NoCalls /\ NoSeed /\ NoWizard /\ NoProxy

\* the body of for (const p of products)
enriched(p) ==
    IF NotInci(p.inci) THEN p
    ELSE LET free == checkFree(p.inci.found)
             t1 == IF free.fragranceFree
                   THEN upsertAutoTag(p.tags, "FRAGRANCE_FREE") ELSE p.tags
             t2 == IF free.alcoholFree
                   THEN upsertAutoTag(t1, "ALCOHOL_FREE") ELSE t1
             t3 == IF free.essentialOilFree
                   THEN upsertAutoTag(t2, "ESSENTIAL_OIL_FREE") ELSE t2
         IN  [slug |-> p.slug, inci |-> p.inci, tags |-> t3,
              hsScore |-> calcHSSafeScore(p.inci.found)]

\* one turn of the loop
enrichNext ==
    /\ cursor \in 1..Len(seedFile)
    /\ seedFile' = [seedFile EXCEPT ![cursor] = enriched(seedFile[cursor])]
    /\ cursor' = cursor + 1
    /\ UNCHANGED <<clsVars, recVars, callVars, seedVars, quizVars, proxyVars>>

\* fs.writeFileSync(file, JSON.stringify(json, null, 2), "utf-8")
writeFileSync ==
    /\ cursor = Len(seedFile) + 1
    /\ cursor' = cursor + 1
    /\ UNCHANGED <<seedFile, clsVars, recVars, callVars, seedVars, quizVars, proxyVars>>

NextEnrich == enrichNext \/ writeFileSync

SpecEnrich == InitEnrich /\ [][NextEnrich]_vars

---------------------------------------------------------------------------
(* The seed script's upsertProducts: one prisma.$transaction per product
   of the seed file. A transaction works on its own view of the rows; the
   view becomes the database when the callback has returned, and is
   dropped when a step throws. An error leaves the loop and main's catch
   ends the process.                                                      *)

\* products in a seed file
MaxEntries == 2

LOCALES == <<"KO", "EN", "FR">>

\* the codes of the Tag table, loaded into tagMap before the loop
tagMap == {"GENTLE", "SOOTHING"}

\* seed products: one that is new, one the database may hold, one with a
\* tag code listed twice and a code the Tag table lacks, one without tags
SeedEntries ==
    { [slug |-> "p1", category |-> "SERUM", name |-> "n1",
       tags |-> << [code |-> "GENTLE", priority |-> 1] >>],
      [slug |-> "p2", category |-> "CREAM", name |-> "n2",
       tags |-> << [code |-> "SOOTHING", priority |-> 1],
                   [code |-> "LOST", priority |-> 2],
                   [code |-> "SOOTHING", priority |-> 3] >>],
      [slug |-> "p2", category |-> "TONER", name |-> "n3", tags |-> << >>],
      [slug |-> "p3", category |-> "MIST", name |-> "n4",
       tags |-> << [code |-> "LOST", priority |-> 1] >>] }

\* seed files: products with slugs of their own
SeedProducts ==
    { f \in SeqsUpTo(SeedEntries, MaxEntries) :
        /\ f # << >>
        /\ \A i, j \in DOMAIN f : i # j => f[i].slug # f[j].slug }

EmptyDatabase == [product |-> {}, translation |-> {}, productTag |-> {}]

\* the database before the seed: empty, or with p2 and another product
\* from an earlier seed
Databases ==
    { EmptyDatabase,
      [product |-> { [slug |-> "p2", category |-> "SERUM"],
                     [slug |-> "p9", category |-> "PAD"] },
       translation |-> { [slug |-> "p2", locale |-> "KO", name |-> "n0"],
                         [slug |-> "p9", locale |-> "EN", name |-> "n9"] },
       productTag |-> { [slug |-> "p2", code |-> "GENTLE", priority |-> 100],
                        [slug |-> "p9", code |-> "GENTLE", priority |-> 100] }] }

\* tx.product.upsert({ where: { slug }, update, create })
upsertProduct(db, p) ==
    [db EXCEPT !.product =
        { r \in @ : r.slug # p.slug }
        \cup { [slug |-> p.slug, category |-> p.category] }]

\* tx.productTranslation.upsert for one locale
upsertTranslation(db, p, locale) ==
    [db EXCEPT !.translation =
        { r \in @ : ~(r.slug = p.slug /\ r.locale = locale) }
        \cup { [slug |-> p.slug, locale |-> locale, name |-> p.name] }]

\* tx.productTag.deleteMany({ where: { productId } })
deleteMany(db, p) ==
    [db EXCEPT !.productTag = { r \in @ : r.slug # p.slug }]

\* p.tags mapped through tagMap, the codes it lacks left out
tagRows(p) ==
    LET known(t) == t.code \in tagMap
    IN  SelectSeq(p.tags, known)

\* tx.productTag.createMany({ data: tagRows, skipDuplicates: true }): of
\* rows with one key the first is inserted
createMany(db, p) ==
    LET rows == tagRows(p)
        firsts == { i \in DOMAIN rows :
                      /\ \A j \in 1..(i - 1) : rows[j].code # rows[i].code
                      /\ \A r \in db.productTag :
                            ~(r.slug = p.slug /\ r.code = rows[i].code) }
    IN  [db EXCEPT !.productTag =
            @ \cup { [slug |-> p.slug, code |-> rows[i].code,
                      priority |-> rows[i].priority] : i \in firsts }]

\* a client whose callback writes through prisma, outside the transaction
rollback_KeepsWrites(db, view) == view

\* what the database is after a transaction that threw
rollback(db, view) == db

NoTx == [open |-> FALSE, step |-> 0, view |-> EmptyDatabase]

InitSeed ==
    \E db \in Databases : \E f \in SeedProducts :
        /\ database = db
        /\ tx = NoTx
        /\ seedRun = [products |-> f, pos |-> 1, status |-> "running",
                      failedAt |-> 0, before |-> db]
        /\ NoQuiz /\ NoCall /\ NoCalls /\ NoEnrich /\ NoWizard /\ NoProxy

notSeed == <<clsVars, recVars, callVars, enrVars, quizVars, proxyVars>>

\* the seed product of the current turn of the loop
entry == seedRun.products[seedRun.pos]

\* await prisma.$transaction(async (tx) => { ... }) is entered
transaction ==
    /\ seedRun.status = "running"
    /\ ~tx.open
    /\ tx' = [open |-> TRUE, step |-> 1, view |-> database]
    /\ UNCHANGED <<database, seedRun, notSeed>>

\* const product = await tx.product.upsert(...)
txUpsertProduct ==
    /\ tx.open /\ tx.step = 1
    /\ tx' = [tx EXCEPT !.step = 2, !.view = upsertProduct(@, entry)]
    /\ UNCHANGED <<database, seedRun, notSeed>>

\* for (const [key, locale] of LOCALES) await tx.productTranslation.upsert
txUpsertTranslation ==
    /\ tx.open /\ tx.step \in 2..4
    /\ tx' = [tx EXCEPT !.step = @ + 1,
                        !.view = upsertTranslation(@, entry, LOCALES[tx.step - 1])]
    /\ UNCHANGED <<database, seedRun, notSeed>>

\* await tx.productTag.deleteMany(...); const tagRows = ...
txDeleteMany ==
    /\ tx.open /\ tx.step = 5
    /\ tx' = [tx EXCEPT !.step = IF Len(tagRows(entry)) > 0 THEN 6 ELSE 7,
                        !.view = deleteMany(@, entry)]
    /\ UNCHANGED <<database, seedRun, notSeed>>

\* if (tagRows.length > 0) await tx.productTag.createMany(...)
txCreateMany ==
    /\ tx.open /\ tx.step = 6
    /\ tx' = [tx EXCEPT !.step = 7, !.view = createMany(@, entry)]
    /\ UNCHANGED <<database, seedRun, notSeed>>

\* the callback has returned: the transaction commits and the loop goes on
commit ==
    /\ tx.open /\ tx.step = 7
    /\ database' = tx.view
    /\ tx' = NoTx
    /\ seedRun' = [seedRun EXCEPT
          !.pos = @ + 1,
          !.status = IF seedRun.pos = Len(seedRun.products)
                     THEN "done" ELSE "running"]
    /\ UNCHANGED notSeed

\* a step of the transaction, or its commit, throws: the transaction is
\* rolled back, upsertProducts rejects, main's catch calls process.exit(1)
throw ==
    /\ tx.open
    /\ database' = rollback(database, tx.view)
    /\ tx' = NoTx
    /\ seedRun' = [seedRun EXCEPT !.status = "failed", !.failedAt = tx.step]
    /\ UNCHANGED notSeed

NextSeed ==
    \/ transaction
    \/ txUpsertProduct
    \/ txUpsertTranslation
    \/ txDeleteMany
    \/ txCreateMany
    \/ commit
    \/ throw

SpecSeed == InitSeed /\ [][NextSeed]_vars

---------------------------------------------------------------------------
(* The quiz wizard, QuizClient: one question is shown at a time; a click
   on an option, on Prev, on Next or on Submit runs its handler and the
   component renders again before the next click.                         *)

\* questions of the two JSON files together
MaxQuestions == 3

\* the options of a question as the files usually give them
TwoOptions == <<"a", "b">>

\* n questions with codes of their own, listed by order or against it
PlainQuestions(n, byOrder) ==
    [i \in 1..n |->
        [code |-> <<"Q1", "Q2", "Q3", "Q4", "Q5">>[i],
         order |-> IF byOrder THEN i ELSE n + 1 - i,
         options |-> TwoOptions]]

\* the same with one question changed: the code of another question, no
\* options, or an option whose id is the empty string
RawQuestions ==
    UNION { { PlainQuestions(n, byOrder) : byOrder \in BOOLEAN }
            \cup { [PlainQuestions(n, byOrder) EXCEPT ![i].code = "Q1"] :
                     byOrder \in BOOLEAN, i \in 2..n }
            \cup { [PlainQuestions(n, byOrder) EXCEPT ![i].options = o] :
                     byOrder \in BOOLEAN, i \in 1..n,
                     o \in { << >>, <<"", "a">> } }
            : n \in 0..MaxQuestions }

\* a.order - b.order <= 0 keeps a before b
RECURSIVE insertByOrder(_, _)
insertByOrder(sorted, q) ==
    IF sorted = << >> THEN <<q>>
    ELSE IF sorted[Len(sorted)].order <= q.order THEN Append(sorted, q)
    ELSE Append(insertByOrder(SubSeq(sorted, 1, Len(sorted) - 1), q),
                sorted[Len(sorted)])

\* [...b.questions, ...p.questions].map(...).sort((a, b) => a.order - b.order)
RECURSIVE sortByOrder(_, _)
sortByOrder(raw, i) ==
    IF i = 0 THEN << >>
    ELSE insertByOrder(sortByOrder(raw, i - 1), raw[i])

\* useState({}) and useState(0)
InitQuiz ==
    \E raw \in RawQuestions :
        /\ questions = sortByOrder(raw, Len(raw))
        /\ selected = << >>
        /\ idx = 0
        /\ submitted = << >>
        /\ NoQuiz /\ NoCall /\ NoCalls /\ NoEnrich /\ NoSeed /\ NoProxy

notQuiz == <<clsVars, recVars, callVars, enrVars, seedVars, proxyVars>>

total == Len(questions)
\* const current = questions[idx], when there is one
hasCurrent == idx + 1 \in DOMAIN questions
current == questions[idx + 1]
\* current ? answers[current.code] : undefined
selectedOptionId ==
    IF hasCurrent THEN pickedIdOf(selected, current.code) ELSE UNDEFINED
answeredCount == Cardinality(DOMAIN selected)
isLast == idx = total - 1

\* a Next button that is never disabled
nextDisabled_Never == FALSE
\* disabled={!selectedOptionId}
nextDisabled == Falsy(selectedOptionId)

\* a Submit button that is never disabled
submitDisabled_Never == FALSE
\* disabled={answeredCount < total}
submitDisabled == answeredCount < total

\* onClick={() => onSelect(current.code, opt.id)}
onSelect(optionId) ==
    /\ hasCurrent
    /\ selected' = [c \in DOMAIN selected \cup {current.code} |->
                       IF c = current.code THEN optionId ELSE selected[c]]
    /\ UNCHANGED <<questions, idx, submitted, notQuiz>>

\* the Next button, shown when !isLast
goNext ==
    /\ hasCurrent
    /\ ~isLast
    /\ ~nextDisabled
    /\ idx' = Min(idx + 1, total - 1)
    /\ UNCHANGED <<questions, selected, submitted, notQuiz>>

\* the Prev button, disabled={idx === 0}
goPrev ==
    /\ hasCurrent
    /\ idx # 0
    /\ idx' = Max(idx - 1, 0)
    /\ UNCHANGED <<questions, selected, submitted, notQuiz>>

\* the Submit button, shown when isLast: console.log("QUIZ SUBMIT:", answers)
onSubmit ==
    /\ hasCurrent
    /\ isLast
    /\ ~submitDisabled
    /\ submitted' = <<selected>>
    /\ UNCHANGED <<questions, selected, idx, notQuiz>>

selectSome ==
    \E k \in DOMAIN current.options : onSelect(current.options[k])

NextQuiz ==
    \/ (hasCurrent /\ selectSome)
    \/ goNext
    \/ goPrev
    \/ onSubmit

SpecQuiz == InitQuiz /\ [][NextQuiz]_vars

\* a user who answers the question shown when it has no answer, and who
\* presses Next on a question whenever they keep coming to it answered
answerCurrent == hasCurrent /\ Falsy(selectedOptionId) /\ selectSome

SpecQuizUser ==
    /\ SpecQuiz
    /\ SF_vars(answerCurrent)
    /\ \A k \in 0..MaxQuestions : SF_vars(goNext /\ idx = k)

---------------------------------------------------------------------------
(* The locale proxy. Path names and header values are strings, modelled
   as sequences of characters so that startsWith, includes, split and
   toLowerCase are computed as the code computes them.                    *)

SUPPORTED_LOCALES == << <<"k", "o">>, <<"e", "n">>, <<"f", "r">> >>
DEFAULT_LOCALE == <<"e", "n">>

UpperCase == <<"A", "B", "C", "D", "E", "F", "G", "H", "I", "J", "K", "L", "M", "N", "O", "P", "Q", "R", "S", "T", "U", "V", "W", "X", "Y", "Z">>
LowerCase == <<"a", "b", "c", "d", "e", "f", "g", "h", "i", "j", "k", "l", "m", "n", "o", "p", "q", "r", "s", "t", "u", "v", "w", "x", "y", "z">>

\* header.toLowerCase()
toLowerCase(str) ==
    [i \in DOMAIN str |->
        IF \E k \in DOMAIN UpperCase : UpperCase[k] = str[i]
        THEN LowerCase[CHOOSE k \in DOMAIN UpperCase : UpperCase[k] = str[i]]
        ELSE str[i]]

\* str.startsWith(prefix)
startsWith(str, prefix) ==
    /\ Len(prefix) <= Len(str)
    /\ SubSeq(str, 1, Len(prefix)) = prefix

\* str.includes(part)
includesText(str, part) ==
    \E i \in 0..(Len(str) - Len(part)) : SubSeq(str, i + 1, i + Len(part)) = part

\* pathname.split("/")[1]: what stands between the first "/" and the next
secondPiece(pathname) ==
    LET rest == SubSeq(pathname, 2, Len(pathname))
        stops == { i \in DOMAIN rest : rest[i] = "/" }
        stop == IF stops = {} THEN Len(rest) + 1
                ELSE CHOOSE i \in stops : \A j \in stops : i <= j
    IN  SubSeq(rest, 1, stop - 1)

\* a header with "en" in it is English, whatever else it holds
detectLocale_EnFirst(header) ==
    IF header = << >> THEN DEFAULT_LOCALE
    ELSE IF includesText(toLowerCase(header), <<"e", "n">>) THEN <<"e", "n">>
    ELSE IF includesText(toLowerCase(header), <<"k", "o">>) THEN <<"k", "o">>
    ELSE IF includesText(toLowerCase(header), <<"f", "r">>) THEN <<"f", "r">>
    ELSE DEFAULT_LOCALE

\* detectLocale(header); the header is the empty sequence when it is null
\* or the empty string, both of which !header takes
detectLocale(header) ==
    IF header = << >> THEN DEFAULT_LOCALE
    ELSE IF includesText(toLowerCase(header), <<"k", "o">>) THEN <<"k", "o">>
    ELSE IF includesText(toLowerCase(header), <<"f", "r">>) THEN <<"f", "r">>
    ELSE IF includesText(toLowerCase(header), <<"e", "n">>) THEN <<"e", "n">>
    ELSE DEFAULT_LOCALE

\* a test for the locale that looks at the first characters only
hasLocale_PlainPrefix(pathname) ==
    \E k \in DOMAIN SUPPORTED_LOCALES :
        startsWith(pathname, <<"/">> \o SUPPORTED_LOCALES[k])

\* SUPPORTED_LOCALES.some((l) => pathname === `/${l}` ||
\* pathname.startsWith(`/${l}/`))
hasLocale(pathname) ==
    \E k \in DOMAIN SUPPORTED_LOCALES :
        \/ pathname = <<"/">> \o SUPPORTED_LOCALES[k]
        \/ startsWith(pathname, <<"/">> \o SUPPORTED_LOCALES[k] \o <<"/">>)

\* the alternatives of the matcher's negative lookahead; "." stands for
\* any character
Excluded ==
    { <<"a", "p", "i">>, <<"_", "n", "e", "x", "t">>, <<"i", "m", "a", "g", "e", "s">>, <<"f", "a", "v", "i", "c", "o", "n", ".", "i", "c", "o">> }

\* the pattern is at the start of str
lookingAt(str, pattern) ==
    /\ Len(pattern) <= Len(str)
    /\ \A i \in DOMAIN pattern : pattern[i] = "." \/ pattern[i] = str[i]

\* config.matcher: "/((?!api|_next|images|favicon.ico).*)"
matcher(pathname) ==
    /\ startsWith(pathname, <<"/">>)
    /\ \A pattern \in Excluded :
          ~lookingAt(SubSeq(pathname, 2, Len(pathname)), pattern)

\* path names a client asks for
Pathnames ==
    { <<"/">>,
      <<"/", "k", "o">>,
      <<"/", "k", "o", "/">>,
      <<"/", "e", "n", "/", "q", "u", "i", "z">>,
      <<"/", "f", "r">>,
      <<"/", "f", "r", "/", "k", "o">>,
      <<"/", "k", "o", "r", "e", "a">>,
      <<"/", "q", "u", "i", "z">>,
      <<"/", "K", "O">>,
      <<"/", "e", "n", "-", "U", "S", "/", "x">>,
      <<"/", "a", "p", "i", "/", "x">>,
      <<"/", "a", "p", "i", "a", "r", "y">>,
      <<"/", "_", "n", "e", "x", "t", "/", "s">>,
      <<"/", "i", "m", "a", "g", "e", "s", "/", "a">>,
      <<"/", "f", "a", "v", "i", "c", "o", "n", ".", "i", "c", "o">>,
      <<"/", "f", "a", "v", "i", "c", "o", "n", "x", "i", "c", "o">> }

\* Accept-Language values; the empty sequence is no header
AcceptLanguages ==
    { <<>>,
      <<"k", "o", "-", "K", "R">>,
      <<"f", "r", ",", "e", "n">>,
      <<"e", "n", "-", "U", "S">>,
      <<"e", "n", ",", "k", "o">>,
      <<"d", "e">>,
      <<"F", "R">>,
      <<"k", "o", "k">> }

NoResponse == [kind |-> "none", location |-> << >>]

\* a request arrives; asked is the path the client first asked for
InitProxy ==
    \E path \in Pathnames : \E header \in AcceptLanguages :
        /\ request = [pathname |-> path, header |-> header, asked |-> path]
        /\ response = NoResponse
        /\ cookie = << >>
        /\ redirects = 0
        /\ NoQuiz /\ NoCall /\ NoCalls /\ NoEnrich /\ NoSeed /\ NoWizard

notProxy == <<clsVars, recVars, callVars, enrVars, seedVars, quizVars>>

\* proxy(req), for a request the matcher selects
proxy ==
    /\ response.kind = "none"
    /\ matcher(request.pathname)
    /\ IF hasLocale(request.pathname)
       THEN /\ response' = [kind |-> "next", location |-> request.pathname]
            /\ cookie' = secondPiece(request.pathname)
       ELSE LET detected == detectLocale(request.header)
            IN  /\ response' =
                      [kind |-> "redirect",
                       location |-> <<"/">> \o detected \o
                           (IF request.pathname = <<"/">> THEN << >>
                            ELSE request.pathname)]
                /\ cookie' = detected
    /\ UNCHANGED <<request, redirects, notProxy>>

\* a request the matcher does not select is served without the proxy
unmatched ==
    /\ response.kind = "none"
    /\ ~matcher(request.pathname)
    /\ response' = [kind |-> "next", location |-> request.pathname]
    /\ UNCHANGED <<request, cookie, redirects, notProxy>>

\* the client follows a redirect response
follow ==
    /\ response.kind = "redirect"
    /\ request' = [request EXCEPT !.pathname = response.location]
    /\ response' = NoResponse
    /\ redirects' = redirects + 1
    /\ UNCHANGED <<cookie, notProxy>>

NextProxy == proxy \/ unmatched \/ follow

SpecProxy == InitProxy /\ [][NextProxy]_vars

---------------------------------------------------------------------------
(* What the claims speak of                                                *)

\* the merged question list of the current definition
Merged == behavior \o preference

ZeroScores == [t \in SkinTypeCode |-> 0]

\* the choice ids a question defines
ChoiceIds(q) == {q.options[k].id : k \in 1..Len(q.options)}

\* the answer to question q selects one of its defined choices
ValidlyAnswered(q, ans) == pickedIdOf(ans, q.code) \in ChoiceIds(q)

\* the target of the choice an answer selects: that of the earliest choice
\* carrying the picked id
ChosenTarget(q, ans) ==
    LET v == pickedIdOf(ans, q.code)
        k == CHOOSE k \in 1..Len(q.options) :
                 /\ q.options[k].id = v
                 /\ \A j \in 1..(k - 1) : q.options[j].id # v
    IN  q.options[k].skinType

\* the archetypes whose score is the maximum
TopSet(scores) == {t \in SkinTypeCode : \A u \in SkinTypeCode : scores[u] <= scores[t]}

\* the first member of a non-empty set of archetypes in the order DS, OB, HS, CC, SC
FirstInOrder(S) ==
    LET k == CHOOSE k \in 1..Len(SKIN_TYPES) :
                 /\ SKIN_TYPES[k] \in S
                 /\ \A j \in 1..(k - 1) : SKIN_TYPES[j] \notin S
    IN  SKIN_TYPES[k]

RECURSIVE SumOfWeights(_, _)
SumOfWeights(qs, I) ==
    IF I = {} THEN 0
    ELSE LET i == CHOOSE i \in I : TRUE
         IN  qs[i].weight + SumOfWeights(qs, I \ {i})

---------------------------------------------------------------------------
\* C1: with no valid entry in the answers map (empty, or only entries that
\* select no defined choice) the result is CC, all five scores 0, the top
\* set all five archetypes in order, tieBreakerUsed true, tieBreakerAnswer null.
NoValidEntry ==
    \A i \in 1..Len(Merged) : ~ValidlyAnswered(Merged[i], answers)

C1_NoSignalDefault ==
    (pc = "done" /\ NoValidEntry) =>
        result = [finalType |-> "CC", scores |-> ZeroScores,
                  topTypes |-> SKIN_TYPES, tieBreakerUsed |-> TRUE,
                  tieBreakerAnswer |-> NULL]

\* a questionnaire whose answers map holds entries, none selecting a choice
C1_Witness ==
    /\ pc = "done"
    /\ NoValidEntry
    /\ Len(Merged) = Len(QuizCodes) + 1
    /\ \E c \in DOMAIN answers : answers[c] = InvalidId
    /\ \E c \in DOMAIN answers : answers[c] = NULL
    /\ result.finalType = "CC"

\* C2: on a tie the final type is the tie-break signal if it is non-null and
\* in the top set, otherwise CC if CC is in the top set, otherwise the first
\* member of the top set in the order DS, OB, HS, CC, SC; a DS/HS tie with
\* signal HS gives HS, a DS/OB/CC tie with signal SC gives CC.
ExpectedOnTie(top, signal) ==
    IF signal # NULL /\ signal \in top THEN signal
    ELSE IF "CC" \in top THEN "CC"
    ELSE FirstInOrder(top)

C2_TiePriority ==
    pc = "done" =>
        LET top == TopSet(result.scores)
            signal == result.tieBreakerAnswer
        IN  /\ Cardinality(top) >= 2 =>
                 result.finalType = ExpectedOnTie(top, signal)
            /\ (top = {"DS", "HS"} /\ signal = "HS") => result.finalType = "HS"
            /\ (top = {"DS", "OB", "CC"} /\ signal = "SC") => result.finalType = "CC"

\* the DS/OB/CC tie with a tie-break answer for SC
C2_Witness ==
    /\ pc = "done"
    /\ TopSet(result.scores) = {"DS", "OB", "CC"}
    /\ result.scores["DS"] > 0
    /\ result.tieBreakerAnswer = "SC"
    /\ result.finalType = "CC"

\* C3: tieBreakerUsed is true exactly when the top set has more than one
\* member; a single top archetype is the final type, with tieBreakerUsed
\* false, whatever the tie-break answer.
C3_TieBreakerUsedIffTie ==
    pc = "done" =>
        LET top == TopSet(result.scores)
        IN  /\ result.tieBreakerUsed <=> Cardinality(top) > 1
            /\ Cardinality(top) = 1 =>
                 /\ result.finalType \in top
                 /\ ~result.tieBreakerUsed

\* a single top archetype while the tie-break answer names another one
C3_Witness ==
    /\ pc = "done"
    /\ Cardinality(TopSet(result.scores)) = 1
    /\ result.tieBreakerAnswer \in SkinTypeCode
    /\ result.tieBreakerAnswer # result.finalType
    /\ ~result.tieBreakerUsed

\* C4: the score of archetype X is the sum of the weights of exactly the
\* non-sentinel questions whose answer is one of their choice ids and whose
\* chosen choice targets X; a chosen choice with a null target adds nowhere.
Contributors(X) ==
    {i \in 1..Len(Merged) :
        /\ Merged[i].code # TIEBREAKER_CODE
        /\ ValidlyAnswered(Merged[i], answers)
        /\ ChosenTarget(Merged[i], answers) = X}

C4_ScoreIsSumOfWeights ==
    pc = "done" =>
        \A X \in SkinTypeCode :
            result.scores[X] = SumOfWeights(Merged, Contributors(X))

\* a choice with a null target, a scored choice and a valid tie-break answer
\* in one answers map
C4_Witness ==
    /\ pc = "done"
    /\ Contributors(NULL) # {}
    /\ Contributors("HS") # {}
    /\ result.scores["HS"] > 0
    /\ \E i \in 1..Len(Merged) :
          /\ Merged[i].code = TIEBREAKER_CODE
          /\ Merged[i].weight # 0
          /\ ValidlyAnswered(Merged[i], answers)
          /\ ChosenTarget(Merged[i], answers) \in SkinTypeCode

\* C5: answers maps that differ only in the TIEBREAKER entry give the same
\* scores and the same topTypes, whatever the sentinel question's weight.
C5_TieBreakerNeverScores ==
    pc = "done" =>
        \A v \in AnswerValues(Merged) :
            LET other == computeSkinType(behavior, preference,
                             [answers EXCEPT ![TIEBREAKER_CODE] = v])
            IN  /\ other.scores = result.scores
                /\ other.topTypes = result.topTypes

\* a weighted sentinel question, validly answered, whose answer decides the
\* final type
C5_Witness ==
    /\ pc = "done"
    /\ \E i \in 1..Len(Merged) :
          /\ Merged[i].code = TIEBREAKER_CODE
          /\ Merged[i].weight > 0
          /\ ValidlyAnswered(Merged[i], answers)
    /\ result.tieBreakerAnswer \in SkinTypeCode
    /\ \E v \in AnswerValues(Merged) :
          computeSkinType(behavior, preference,
              [answers EXCEPT ![TIEBREAKER_CODE] = v]).finalType # result.finalType

\* C6: an answers entry that selects no defined choice (a key matching no
\* question code, an absent or null value, an id that is not a choice of the
\* question) is ignored: the result is a result, and it is the result for
\* the answers map without that entry.
SelectsNoChoice(code) ==
    \A i \in 1..Len(Merged) :
        Merged[i].code = code => ~ValidlyAnswered(Merged[i], answers)

C6_MalformedAnswersIgnored ==
    pc = "done" =>
        /\ result.finalType \in SkinTypeCode
        /\ \A code \in DOMAIN answers :
              SelectsNoChoice(code) =>
                  computeSkinType(behavior, preference,
                      [answers EXCEPT ![code] = UNDEFINED]) = result

\* an id that is no choice of its question, beside answers that score
C6_Witness ==
    /\ pc = "done"
    /\ \E code \in DOMAIN answers :
          /\ answers[code] = InvalidId
          /\ \E i \in 1..Len(Merged) :
                Merged[i].code = code /\ Merged[i].options # << >>
    /\ result.scores # ZeroScores

\* C7: with non-negative weights the scores map has exactly the keys DS, OB,
\* HS, CC, SC and every entry is >= 0.
NonNegativeWeights == \A i \in 1..Len(Merged) : Merged[i].weight >= 0

C7_ScoresNonNegative ==
    (pc = "done" /\ NonNegativeWeights) =>
        /\ DOMAIN result.scores = SkinTypeCode
        /\ \A t \in SkinTypeCode : result.scores[t] >= 0

\* scored answers under non-negative weights
C7_Witness ==
    /\ pc = "done"
    /\ NonNegativeWeights
    /\ \E t \in SkinTypeCode : result.scores[t] > 1
    /\ \E t \in SkinTypeCode : result.scores[t] = 0

\* C9 as stated: permuting the merged question list, and dividing it anew
\* between the behavior and the preference set, leaves the whole result
\* unchanged.
Orderings(n) ==
    {f \in [1..n -> 1..n] : \A i, j \in 1..n : f[i] = f[j] => i = j}

\* every way to reorder the merged questions and split them into two sets
Rearrangements ==
    LET n == Len(Merged)
    IN  { [behavior   |-> [i \in 1..k |-> Merged[f[i]]],
           preference |-> [i \in 1..(n - k) |-> Merged[f[k + i]]]] :
            f \in Orderings(n), k \in 0..n }

C9_OrderIrrelevant ==
    pc = "done" =>
        \A d \in Rearrangements :
            computeSkinType(d.behavior, d.preference, answers) = result

\* C9, amended: with at most one TIEBREAKER question the whole result is
\* unchanged; with several, scores, topTypes and tieBreakerUsed still are,
\* and only tieBreakerAnswer and the finalType it decides may change.
SentinelQuestions == {i \in 1..Len(Merged) : Merged[i].code = TIEBREAKER_CODE}

C9_OrderIrrelevantOneSentinel ==
    pc = "done" =>
        \A d \in Rearrangements :
            LET other == computeSkinType(d.behavior, d.preference, answers)
            IN  /\ other.scores = result.scores
                /\ other.topTypes = result.topTypes
                /\ other.tieBreakerUsed = result.tieBreakerUsed
                /\ Cardinality(SentinelQuestions) <= 1 => other = result

\* a questionnaire with its one TIEBREAKER question last, every question
\* answered with a scoring choice, the tie decided by the tie-break answer
C9_Witness ==
    /\ pc = "done"
    /\ Len(Merged) = Len(QuizCodes) + 1
    /\ SentinelQuestions = {Len(Merged)}
    /\ \A i \in 1..Len(Merged) :
          /\ ValidlyAnswered(Merged[i], answers)
          /\ ChosenTarget(Merged[i], answers) \in SkinTypeCode
    /\ result.tieBreakerUsed
    /\ result.finalType = result.tieBreakerAnswer
    /\ result.finalType # "CC"

\* C10: six behavior questions of weight 1 and a TIEBREAKER question; five
\* answered with a DS choice, one unanswered, the tie-break answered with a
\* DS choice: finalType DS, tieBreakerUsed false, scores DS = 5, others 0.
PicksTarget(i, X) ==
    ValidlyAnswered(Merged[i], answers) /\ ChosenTarget(Merged[i], answers) = X

Unanswered(i) == pickedIdOf(answers, Merged[i].code) \in {UNDEFINED, NULL}

E2ECase ==
    /\ Len(behavior) = 6
    /\ \A i \in 1..6 : behavior[i].weight = 1 /\ behavior[i].code # TIEBREAKER_CODE
    /\ Len(preference) = 1
    /\ preference[1].code = TIEBREAKER_CODE
    /\ Cardinality({i \in 1..6 : PicksTarget(i, "DS")}) = 5
    /\ Cardinality({i \in 1..6 : Unanswered(i)}) = 1
    /\ PicksTarget(7, "DS")

C10_EndToEnd ==
    (pc = "done" /\ E2ECase) =>
        /\ result.finalType = "DS"
        /\ ~result.tieBreakerUsed
        /\ result.scores = [ZeroScores EXCEPT !["DS"] = 5]

\* the example with its fourth question left out as null
C10_Witness ==
    /\ pc = "done"
    /\ E2ECase
    /\ answers["Q4"] = NULL
    /\ result.finalType = "DS"

---------------------------------------------------------------------------
(* What the claims about the recommender speak of                          *)

Returned == pcPick = "returned"

\* the query contract: published, of the archetype, of a preferred category,
\* with one of the required tags if any are required, with no excluded tag
Qualifies(p) ==
    /\ p.isPublished
    /\ skinType \in p.skinTypes
    /\ \E i \in 1..Len(rule.preferredCategories) :
           rule.preferredCategories[i] = p.category
    /\ ("requiredTagsAny" \in DOMAIN rule /\ rule.requiredTagsAny # << >>
          => \E i \in 1..Len(p.tags), j \in 1..Len(rule.requiredTagsAny) :
                 p.tags[i] = rule.requiredTagsAny[j])
    /\ ("excludedTags" \in DOMAIN rule /\ rule.excludedTags # << >>
          => \A i \in 1..Len(p.tags), j \in 1..Len(rule.excludedTags) :
                 p.tags[i] # rule.excludedTags[j])

Candidates == { p \in catalog : Qualifies(p) }

\* the keys of the rule's boost table, and the weight configured for a key
\* (for a code listed twice, the weight listed last)
BoostKeys ==
    IF "boostTags" \in DOMAIN rule
    THEN { rule.boostTags[i].code : i \in 1..Len(rule.boostTags) } ELSE {}

ConfiguredWeight(code) ==
    LET at == { i \in 1..Len(rule.boostTags) : rule.boostTags[i].code = code }
    IN  rule.boostTags[CHOOSE i \in at : \A j \in at : j <= i].weight

\* the sum of the boost-table weights of a set of tags
RECURSIVE SumOfBoosts(_)
SumOfBoosts(tags) ==
    IF tags = {} THEN 0
    ELSE LET t == CHOOSE x \in tags : TRUE
         IN  (IF t \in BoostKeys THEN ConfiguredWeight(t) ELSE 0)
             + SumOfBoosts(tags \ {t})

\* the safety bonus and the final score of a row, in units of 0.05
SafetyBonus(p) ==
    IF skinType # "HS" THEN 0
    ELSE IF "hsScore" \in DOMAIN p THEN p.hsScore - 50 ELSE 0

FinalScore(p) == 20 * SumOfBoosts(Elems(p.tags)) + SafetyBonus(p)

PickedProducts == { picked[i].product : i \in 1..Len(picked) }

\* where the query returned a row
PlaceOf(p) == CHOOSE i \in 1..Len(products) : products[i] = p

Smaller(a, b) == IF a < b THEN a ELSE b

\* C11: the returned list has min(rule.limit, number of candidates) entries,
\* so never more than rule.limit
C11_LengthIsMinOfLimitAndCandidates ==
    Returned =>
        /\ Len(picked) = Smaller(rule.limit, Cardinality(Candidates))
        /\ Len(picked) <= rule.limit

\* a limit of 3 and ten qualifying products: three entries
C11_Witness ==
    /\ Returned
    /\ rule.limit = 3
    /\ Cardinality(Candidates) = 10
    /\ Len(picked) = 3

\* C12: the returned list is in non-increasing order of score, and no
\* candidate left out scores strictly more than a returned one
C12_SortedTopN ==
    Returned =>
        /\ \A i, j \in 1..Len(picked) :
               i < j => picked[i].score >= picked[j].score
        /\ \A p \in Candidates \ PickedProducts :
               \A i \in 1..Len(picked) : FinalScore(p) <= picked[i].score

\* the query returned the lowest score first and the highest last, and a
\* candidate is left out
C12_Witness ==
    /\ Returned
    /\ Len(picked) >= 2
    /\ Candidates \ PickedProducts # {}
    /\ \A i \in 2..Len(products) :
           FinalScore(products[i - 1]) < FinalScore(products[i])
    /\ picked[1].product = products[Len(products)]

\* C13: candidates of equal score keep the order in which the query
\* returned them, in the returned list and at the cut
C13_TiesKeepQueryOrder ==
    Returned =>
        /\ \A i, j \in 1..Len(picked) :
               (i < j /\ picked[i].score = picked[j].score)
                   => PlaceOf(picked[i].product) < PlaceOf(picked[j].product)
        /\ \A p \in Candidates \ PickedProducts :
               \A i \in 1..Len(picked) :
                   FinalScore(p) = picked[i].score
                       => PlaceOf(picked[i].product) < PlaceOf(p)

\* two returned entries tie, a candidate of the same score is cut off, and
\* the query returned a lower score ahead of them
C13_Witness ==
    /\ Returned
    /\ \E i \in 1..Len(picked) : \E j \in 1..Len(picked) :
           /\ i < j
           /\ picked[i].score = picked[j].score
           /\ picked[i].product.id > picked[j].product.id
    /\ \E p \in Candidates \ PickedProducts :
           FinalScore(p) = picked[Len(picked)].score
    /\ \E i \in 1..Len(products) :
           /\ FinalScore(products[i]) < picked[Len(picked)].score
           /\ i < PlaceOf(picked[1].product)

Answered == pcPick \in {"awaiting", "returned"}

\* C14: the query admits exactly the rows that qualify, so a product with
\* none of the required tags, or with an excluded tag, is never returned
C14_QueryAdmitsExactlyQualifying ==
    /\ Answered =>
          /\ Elems(products) = Candidates
          /\ Len(products) = Cardinality(Candidates)
    /\ Returned =>
          \A i \in 1..Len(picked) :
              /\ picked[i].product \in catalog
              /\ Qualifies(picked[i].product)

\* required and excluded tags are given; one row is returned, one has a
\* required and an excluded tag, one has no required tag
C14_Witness ==
    /\ Returned
    /\ "requiredTagsAny" \in DOMAIN rule /\ "excludedTags" \in DOMAIN rule
    /\ Len(picked) = 1
    /\ \E p \in catalog \ PickedProducts :
           /\ Elems(p.tags) \cap Elems(rule.requiredTagsAny) # {}
           /\ Elems(p.tags) \cap Elems(rule.excludedTags) # {}
    /\ \E p \in catalog \ PickedProducts :
           /\ Elems(p.tags) \cap Elems(rule.requiredTagsAny) = {}
           /\ Elems(p.tags) \cap Elems(rule.excludedTags) = {}
           /\ p.isPublished /\ skinType \in p.skinTypes
           /\ p.category \in Elems(rule.preferredCategories)

\* C15: tagScore is the sum of the boost-table weights of the candidate's
\* tags, and matchedBoostTags lists exactly the candidate's tags that are
\* keys of the boost table, each with its configured weight, zero or not
C15_TagScoreAndMatchedBoostTags ==
    Returned =>
        \A i \in 1..Len(picked) :
            LET e == picked[i]
                tags == Elems(e.product.tags)
            IN  /\ e.breakdown.tagScore = SumOfBoosts(tags)
                /\ Elems(e.breakdown.matchedBoostTags)
                     = { [code |-> t, weight |-> ConfiguredWeight(t)] :
                           t \in tags \cap BoostKeys }
                /\ Len(e.breakdown.matchedBoostTags)
                     = Cardinality(tags \cap BoostKeys)

\* C16: score = tagScore + hsBonus, and hsBonus is 0 for an archetype other
\* than HS and (s - 50) * 0.05 for HS, s being the hsScore or 50 (in units
\* of 0.05)
C16_ScoreIsTagScorePlusHsBonus ==
    Returned =>
        \A i \in 1..Len(picked) :
            LET e == picked[i]
            IN  /\ e.score = 20 * e.breakdown.tagScore + e.breakdown.hsBonus
                /\ e.breakdown.hsBonus = SafetyBonus(e.product)

\* an HS call returns a row of hsScore 0 with a positive tagScore
C16_Witness ==
    /\ Returned
    /\ skinType = "HS"
    /\ \E i \in 1..Len(picked) :
           /\ "hsScore" \in DOMAIN picked[i].product
           /\ picked[i].product.hsScore = 0
           /\ picked[i].breakdown.tagScore > 0
           /\ picked[i].score = 20 * picked[i].breakdown.tagScore - 50

InRange(p) == "hsScore" \in DOMAIN p => p.hsScore \in 0..100

\* C17: for HS, an hsScore in [0,100] gives an hsBonus in [-2.5, 2.5]
\* (-50..50 units), and no hsScore gives 0
C17_HsBonusBounds ==
    (Returned /\ skinType = "HS") =>
        \A i \in 1..Len(picked) :
            LET e == picked[i]
            IN  /\ ("hsScore" \in DOMAIN e.product /\ InRange(e.product))
                      => (e.breakdown.hsBonus >= -50 /\ e.breakdown.hsBonus <= 50)
                /\ "hsScore" \notin DOMAIN e.product => e.breakdown.hsBonus = 0

\* an HS call returns rows of hsScore 0 and 100 and one with no hsScore
C17_Witness ==
    /\ Returned
    /\ skinType = "HS"
    /\ \E i, j, k \in 1..Len(picked) :
           /\ "hsScore" \in DOMAIN picked[i].product
           /\ picked[i].product.hsScore = 0 /\ picked[i].breakdown.hsBonus = -50
           /\ "hsScore" \in DOMAIN picked[j].product
           /\ picked[j].product.hsScore = 100 /\ picked[j].breakdown.hsBonus = 50
           /\ "hsScore" \notin DOMAIN picked[k].product
           /\ picked[k].breakdown.hsBonus = 0

\* a is ranked ahead of b, as far as the returned list shows
RankedAhead(a, b) ==
    IF a \in PickedProducts
    THEN b \in PickedProducts =>
             \A i, j \in 1..Len(picked) :
                 (picked[i].product = a /\ picked[j].product = b) => i < j
    ELSE b \notin PickedProducts

HsPolicyCall == Returned /\ skinType = "HS" /\ rule = RULES_BY_TYPE["HS"]

\* C18 as stated: for HS under the HS policy a candidate with a strictly
\* greater tagScore is ranked ahead, whatever the hsScores in [0,100]
C18_TagScoreDecides ==
    HsPolicyCall =>
        \A a, b \in { p \in Candidates : InRange(p) } :
            SumOfBoosts(Elems(a.tags)) > SumOfBoosts(Elems(b.tags))
                => RankedAhead(a, b)

\* C18 amended: a candidate whose tagScore is greater by more than 5 points
\* is ranked ahead, whatever the hsScores in [0,100]
C18_TagScoreDecidesBeyondFive ==
    HsPolicyCall =>
        \A a, b \in { p \in Candidates : InRange(p) } :
            SumOfBoosts(Elems(a.tags)) > SumOfBoosts(Elems(b.tags)) + 5
                => RankedAhead(a, b)

\* the query returns an unsafe row of tagScore 12 behind a safe row of
\* tagScore 3, and the call returns it ahead
C18_Witness ==
    /\ HsPolicyCall
    /\ \E i, j \in 1..Len(picked) :
           /\ i < j
           /\ picked[i].breakdown.tagScore > picked[j].breakdown.tagScore + 5
           /\ picked[i].breakdown.hsBonus = -50
           /\ picked[j].breakdown.hsBonus = 50
           /\ PlaceOf(picked[j].product) < PlaceOf(picked[i].product)

\* C19: no candidates, or a limit of 0, give the empty list
C19_EmptyResult ==
    Returned =>
        /\ products = << >> => picked = << >>
        /\ rule.limit = 0 => picked = << >>

\* a call with limit 0 whose query returned rows
C19_Witness ==
    /\ Returned
    /\ rule.limit = 0
    /\ Len(products) >= 2
    /\ picked = << >>

\* C20: whatever archetype a call is for, RULES_BY_TYPE has one rule for
\* each of the five archetypes, each with preferred categories, a positive
\* integer limit and no negative boost weight
C20_PolicyTableWellFormed ==
    skinType \in SkinTypeCode =>
        /\ DOMAIN RULES_BY_TYPE = SkinTypeCode
        /\ \A t \in DOMAIN RULES_BY_TYPE :
               LET r == RULES_BY_TYPE[t]
               IN  /\ Len(r.preferredCategories) > 0
                   /\ r.limit \in Nat \ {0}
                   /\ \A i \in 1..Len(OrEmpty(r, "boostTags")) :
                          r.boostTags[i].weight >= 0

\* a call with the archetype's own rule returns as many entries as the
\* rule's limit
C20_Witness ==
    /\ Returned
    /\ rule = RULES_BY_TYPE[skinType]
    /\ Len(picked) = rule.limit

---------------------------------------------------------------------------
(* C21: pickTopProducts is read-only on its inputs. The step that runs the
   function body after the query leaves the rule object, the array the
   query returned (its rows, their tags and hsScore, and their order) and
   the catalog as they were, and the product of every returned entry is a
   row of that array and of the catalog. *)
C21_InputsUnchanged ==
    [][pcPick = "awaiting" =>
          /\ rule' = rule
          /\ products' = products
          /\ catalog' = catalog
          /\ \A i \in DOMAIN picked' :
                /\ picked'[i].product \in Elems(products)
                /\ picked'[i].product \in catalog]_vars

\* a call returned entries in another order than the query's, for a rule
\* with boost tags
C21_Witness ==
    /\ Returned
    /\ Len(picked) >= 2
    /\ "boostTags" \in DOMAIN rule
    /\ [i \in DOMAIN picked |-> picked[i].product] # SubSeq(products, 1, Len(picked))

---------------------------------------------------------------------------
(* C22: concurrent recommendations do not interfere. In every interleaving
   of the calls' steps, a call that has returned has returned the list that
   pickTopProducts gives for its archetype, the rule object as it was
   passed, and the array its own query returned.  *)
C22_CallsDoNotInterfere ==
    \A i \in DOMAIN frames :
        frames[i].pc = "returned" =>
            frames[i].returned =
                pickTopProducts(frames[i].skinType, RuleObjects[frames[i].ref],
                                frames[i].products)

\* two calls with the same rule object have returned, each a list of two
\* or more, from query results in different orders
C22_Witness ==
    \E i, j \in DOMAIN frames :
        /\ i # j
        /\ frames[i].ref = frames[j].ref
        /\ frames[i].pc = "returned" /\ frames[j].pc = "returned"
        /\ Len(frames[i].returned) >= 2
        /\ Len(frames[j].returned) >= 2
        /\ frames[i].products # frames[j].products
        /\ heap = RuleObjects

---------------------------------------------------------------------------
(* What the claim about the enrich script speaks of                        *)

\* the products the loop has passed
Passed == { seedFile[i] : i \in 1..Min(cursor - 1, Len(seedFile)) }

HasScoreInRange(p) ==
    /\ "hsScore" \in DOMAIN p
    /\ p.hsScore \in 0..100

(* C23: for every combination of the nine findings calcHSSafeScore is an
   integer of [0,100], and every product the loop has passed that has an
   INCI text (p.inci is a string that is not empty) carries that score; a
   product the loop skips, its inci absent, null or the empty string, is
   as the file had it. *)
C23_ScoreAttachedToTexts ==
    /\ cursor > 0 =>
          \A found \in SUBSET Findings : calcHSSafeScore(found) \in 0..100
    /\ \A p \in Passed :
          p.inci.text = "present" =>
              /\ HasScoreInRange(p)
              /\ p.hsScore = calcHSSafeScore(p.inci.found)
    /\ \A i \in 1..Min(cursor - 1, Len(seedFile)) :
          NotInci(seedFile[i].inci) => seedFile[i] \in FewProducts

\* the loop has ended on a file with a text whose sum is below 0, scored 0
C23_Witness ==
    /\ cursor > Len(seedFile)
    /\ \E p \in Passed :
          /\ p.inci.text = "present"
          /\ rawScore(p.inci.found) < 0
          /\ p.hsScore = 0

---------------------------------------------------------------------------
(* C24: when several questions carry the TIEBREAKER code the last one wins.
   tieBreakerAnswer is the target (an archetype or null) of the chosen
   choice in the last question of the merged list, behavior then
   preference, that carries the code and has a choice with the chosen id;
   without such a question it is null. *)
AnsweredSentinels ==
    { i \in SentinelQuestions : ValidlyAnswered(Merged[i], answers) }

C24_LastSentinelWins ==
    pc = "done" =>
        IF AnsweredSentinels = {} THEN result.tieBreakerAnswer = NULL
        ELSE LET last == CHOOSE i \in AnsweredSentinels :
                             \A j \in AnsweredSentinels : j <= i
             IN  result.tieBreakerAnswer = ChosenTarget(Merged[last], answers)

\* two TIEBREAKER questions, both with the chosen choice, of different
\* targets, the earlier one an archetype
C24_Witness ==
    /\ pc = "done"
    /\ \E i, j \in AnsweredSentinels :
          /\ i < j
          /\ ChosenTarget(Merged[i], answers) \in SkinTypeCode
          /\ ChosenTarget(Merged[i], answers) # ChosenTarget(Merged[j], answers)
          /\ result.tieBreakerAnswer = ChosenTarget(Merged[j], answers)

---------------------------------------------------------------------------
(* C25: for a definition whose weights are all non-negative, and any
   answers map, topTypes is not empty, holds exactly the archetypes whose
   score is the greatest of the five, each once and in the order DS, OB,
   HS, CC, SC, and finalType is one of them. *)
PlaceInOrder(t) == CHOOSE k \in 1..Len(SKIN_TYPES) : SKIN_TYPES[k] = t

C25_TopTypesWellFormed ==
    (pc = "done" /\ \A i \in 1..Len(Merged) : Merged[i].weight >= 0) =>
        LET top == result.topTypes
        IN  /\ Len(top) >= 1
            /\ Elems(top) = TopSet(result.scores)
            /\ \A k \in 1..(Len(top) - 1) :
                  PlaceInOrder(top[k]) < PlaceInOrder(top[k + 1])
            /\ result.finalType \in Elems(top)

\* two, three or four archetypes share a positive greatest score
C25_Witness ==
    /\ pc = "done"
    /\ \A i \in 1..Len(Merged) : Merged[i].weight >= 0
    /\ Len(result.topTypes) \in 2..4
    /\ result.scores[result.finalType] > 0
    /\ result.finalType # result.topTypes[1]

---------------------------------------------------------------------------
(* What the claim about the seed script speaks of                          *)

\* the rows of a product in the three tables
RowsOf(db, slug) ==
    [product |-> { r \in db.product : r.slug = slug },
     translation |-> { r \in db.translation : r.slug = slug },
     productTag |-> { r \in db.productTag : r.slug = slug }]

\* the rows a seed product has once it is seeded: its product row, a
\* translation per locale, a link per tag code the Tag table knows, with
\* the priority of the code's first mention
SeededRows(p) ==
    [product |-> { [slug |-> p.slug, category |-> p.category] },
     translation |-> { [slug |-> p.slug, locale |-> LOCALES[k], name |-> p.name] :
                         k \in 1..Len(LOCALES) },
     productTag |->
        { [slug |-> p.slug, code |-> p.tags[i].code, priority |-> p.tags[i].priority] :
            i \in { i \in DOMAIN p.tags :
                      /\ p.tags[i].code \in tagMap
                      /\ \A j \in 1..(i - 1) : p.tags[j].code # p.tags[i].code } }]

\* translations of the product in locales the seed does not write
OtherLocales(db, slug) ==
    { r \in db.translation : r.slug = slug /\ r.locale \notin Elems(LOCALES) }

(* C26: seeding is atomic per product. At every moment each seed product
   before the loop's position has all its seeded rows in the database, and
   every other product, the one whose transaction is open or has thrown and
   those after it, has the rows it had before the seed; products the seed
   file does not name keep their rows. Once a transaction has thrown
   nothing is written any more. *)
C26_AtomicPerProduct ==
    /\ seedRun.status \in {"running", "failed", "done"} =>
          /\ \A j \in DOMAIN seedRun.products :
                LET p == seedRun.products[j]
                    now == RowsOf(database, p.slug)
                IN  IF j < seedRun.pos
                    THEN /\ now.product = SeededRows(p).product
                         /\ now.productTag = SeededRows(p).productTag
                         /\ now.translation =
                               SeededRows(p).translation
                               \cup OtherLocales(seedRun.before, p.slug)
                    ELSE now = RowsOf(seedRun.before, p.slug)
          /\ \A slug \in {"p9"} :
                RowsOf(database, slug) = RowsOf(seedRun.before, slug)
          /\ seedRun.status = "failed" => ~tx.open /\ ~ENABLED NextSeed

\* the transaction of the second product threw after its tag links were
\* deleted; the product had rows before the seed, the first is committed
C26_Witness ==
    /\ seedRun.status = "failed"
    /\ seedRun.pos = 2
    /\ seedRun.failedAt >= 6
    /\ RowsOf(seedRun.before, seedRun.products[2].slug).productTag # {}
    /\ database # seedRun.before

---------------------------------------------------------------------------
(* What the claims about the quiz wizard speak of                          *)

\* question k (from 1) has a selected option
HasSelection(k) == questions[k].code \in DOMAIN selected

DistinctCodes ==
    \A i, j \in DOMAIN questions : i # j => questions[i].code # questions[j].code

\* every question has options, none with an empty id
Answerable ==
    \A i \in DOMAIN questions :
        /\ questions[i].options # << >>
        /\ \A k \in DOMAIN questions[i].options : questions[i].options[k] # ""

SubmitEnabled == hasCurrent /\ isLast /\ ~submitDisabled

(* C27: over a non-empty question list, whatever is clicked, the index
   stays within 0..total-1 and every question before the one shown has a
   selected option; no click removes an answer. *)
C27_IndexInRangeAndPrefixAnswered ==
    /\ [](total > 0 =>
            /\ idx \in 0..(total - 1)
            /\ \A k \in 1..idx : HasSelection(k))
    /\ [][DOMAIN selected \subseteq DOMAIN selected']_vars

\* three questions are answered, not all alike, and the user has gone
\* back from the third to the second
C27_Witness ==
    /\ total = 3
    /\ idx = 1
    /\ answeredCount = 3
    /\ selected[questions[1].code] # selected[questions[2].code]

(* C28: with distinct question codes, Submit runs only while the last
   question is shown and every question has a selected option, the number
   of answers being the number of questions; and when every question can
   be answered, the user who answers and presses Next comes to a state in
   which Submit is enabled. *)
C28_SubmitOnlyWhenComplete ==
    /\ [][(DistinctCodes /\ submitted' # submitted) =>
            /\ isLast
            /\ \A k \in DOMAIN questions : HasSelection(k)
            /\ answeredCount = total]_vars
    /\ (total > 0 /\ DistinctCodes /\ Answerable) => <>SubmitEnabled

\* Submit has logged the answers of three questions
C28_Witness ==
    /\ total = 3
    /\ DistinctCodes
    /\ submitted # << >>
    /\ DOMAIN submitted[1] = { questions[k].code : k \in 1..3 }

---------------------------------------------------------------------------
(* What the claim about the locale proxy speaks of                         *)

Locales == Elems(SUPPORTED_LOCALES)

\* the path's first segment is a locale: /ko, /ko/..., not /korea
HasLocalePrefix(pathname) ==
    /\ startsWith(pathname, <<"/">>)
    /\ secondPiece(pathname) \in Locales

\* ko before fr before en, en when none is named or there is no header
ExpectedLocale(header) ==
    LET order == << <<"k", "o">>, <<"f", "r">>, <<"e", "n">> >>
        named == { k \in DOMAIN order :
                     includesText(toLowerCase(header), order[k]) }
    IN  IF named = {} THEN <<"e", "n">>
        ELSE order[CHOOSE k \in named : \A j \in named : k <= j]

\* the path prefixed with a locale; "/" becomes the bare prefix
Prefixed(locale, pathname) ==
    <<"/">> \o locale \o (IF pathname = <<"/">> THEN << >> ELSE pathname)

(* C29: locale routing redirects at most once. A request the matcher
   selects whose path begins with the segment ko, en or fr passes with the
   cookie set to that segment; any other such request is redirected to its
   path prefixed with the locale detected from Accept-Language (ko before
   fr before en, else en) with the cookie set to that locale, and the
   request that follows the redirect passes; the cookie, once set, is ko,
   en or fr. *)
C29_AtMostOneRedirect ==
    /\ redirects <= 1
    /\ cookie \in Locales \cup {<< >>}
    /\ (response.kind = "next" /\ matcher(request.pathname)) =>
          /\ HasLocalePrefix(request.pathname)
          /\ cookie = secondPiece(request.pathname)
          /\ response.location = request.pathname
    /\ response.kind = "redirect" =>
          /\ redirects = 0
          /\ ~HasLocalePrefix(request.pathname)
          /\ cookie = ExpectedLocale(request.header)
          /\ response.location = Prefixed(cookie, request.pathname)
    /\ redirects = 1 =>
          /\ response.kind # "redirect"
          /\ request.pathname = Prefixed(cookie, request.asked)
          /\ matcher(request.pathname)
    /\ HasLocalePrefix(request.asked) => redirects = 0

\* /korea, asked with a header that names en before ko, was redirected to
\* /ko/korea, which has passed
C29_Witness ==
    /\ redirects = 1
    /\ response.kind = "next"
    /\ request.asked = <<"/", "k", "o", "r", "e", "a">>
    /\ request.header = <<"e", "n", ",", "k", "o">>
    /\ request.pathname = <<"/", "k", "o", "/", "k", "o", "r", "e", "a">>
    /\ cookie = <<"k", "o">>

---------------------------------------------------------------------------
(* C30: in every rule of RULES_BY_TYPE each tag of requiredTagsAny has a
   boost weight above 0 in the same rule; so every entry a call with a
   rule of the table returns has a tagScore above 0 and a matchedBoostTags
   list that is not empty, and for HS with its own rule the score of every
   returned entry whose hsScore is in [0,100] or absent is above 0. *)
TableRules == { RULES_BY_TYPE[t] : t \in SkinTypeCode }

C30_RequiredTagsAreBoosted ==
    (Returned /\ rule \in TableRules) =>
        /\ \A r \in TableRules :
              \A k \in DOMAIN r.requiredTagsAny :
                  \E b \in DOMAIN r.boostTags :
                      /\ r.boostTags[b].code = r.requiredTagsAny[k]
                      /\ r.boostTags[b].weight > 0
        /\ \A i \in DOMAIN picked :
              /\ picked[i].breakdown.tagScore > 0
              /\ picked[i].breakdown.matchedBoostTags # << >>
              /\ (HsPolicyCall /\ InRange(picked[i].product)) =>
                     picked[i].score > 0

\* HS with its own rule returned an entry with the least tagScore of a
\* candidate and hsScore 0, and another whose hsScore is absent
C30_Witness ==
    /\ HsPolicyCall
    /\ \E i, j \in DOMAIN picked :
          /\ "hsScore" \in DOMAIN picked[i].product
          /\ picked[i].product.hsScore = 0
          /\ picked[i].score > 0
          /\ "hsScore" \notin DOMAIN picked[j].product

====
